---- MODULE Spec2Model ----
(***************************************************************************)
(* A model of drm-hwcomposer's display-pipeline resource management:       *)
(*   - DrmDevice::Init: topology discovery, display-number assignment and  *)
(*     encoder/CRTC binding (src/drm/DrmDevice.cpp);                       *)
(*   - DrmDisplayComposition: the composition kind guard and the per-frame *)
(*     Plan with its plane pools (src/compositor/DrmDisplayComposition.cpp).*)
(***************************************************************************)
EXTENDS Integers, Sequences, FiniteSets, TLC

(***************************************************************************)
(* Bounds of the model.                                                    *)
(***************************************************************************)
MaxConnectors == 2
MaxOrderLen == 2
MaxStartDisplays == 1
NumPassDisplays == 2
NumPlanes == 3
MaxLayers == 2
MaxCompositionPlanes == 2
MaxNodes == 3
MaxDevDisplays == 2

\* the clock runs from 0 to MaxTime; one refresh period is Period ticks
MaxTime == 7
Period == 2

\* the kernel reports at most MaxModes modes of a connector, and the device
\* hands out the mode ids 1..MaxModeId
MaxModes == 2
MaxModeId == 4

(***************************************************************************)
(* errno values returned by the code.                                      *)
(***************************************************************************)
ENOENT == 2
EAGAIN == 11
EACCES == 13
ENODEV == 19
EINVAL == 22
EINTR == 4
ENOTSUP == 95

\* the plane alpha of an opaque layer, 0xffff
OpaqueAlpha == 65535

VARIABLES
  \* ---- DrmDevice::Init -------------------------------------------------
  res,                   \* what the kernel reports: encoders and connectors
  display_order,         \* vendor.hwc.drm.primary_display_order, split at ','
  pc,                    \* position inside DrmDevice::Init
  ret,                   \* Init's local ret
  num_displays,          \* Init's parameter num_displays (incremented locally)
  found_primary,         \* Init's local found_primary
  connectors_,           \* DrmDevice::connectors_ (connector indices, in order)
  writeback_connectors_, \* DrmDevice::writeback_connectors_
  conn_display,          \* DrmConnector::display_ of every connector
  conn_encoder,          \* DrmConnector::encoder_ (0 is nullptr)
  enc_crtc,              \* DrmEncoder::crtc_ (0 is nullptr)
  enc_display,           \* DrmEncoder::display_
  crtc_display,          \* DrmCrtc::display_
  displays_,             \* the keys of DrmDevice::displays_
  pipe_i,                \* index of the CreateDisplayPipe loop of Init
  result,                \* what Init returned: <<ret, displays added>>
  \* ---- DrmDisplayComposition, one per display of a planning pass --------
  plane_type,            \* DrmPlane::type() of every plane of the device
  primary_planes,        \* the pool *primary_planes the displays plan on
  overlay_planes,        \* the pool *overlay_planes
  comp,                  \* the DrmDisplayComposition of every display
  call,                  \* the last call on a composition and what it returned
  \* ---- ResourceManager -------------------------------------------------
  nodes,                 \* the device nodes path0, path1, ... that exist
  path_wildcard,         \* vendor.hwc.drm.device ends with '%'
  buffer_info,           \* BufferInfoGetter::GetInstance() is not null
  rm_pc,                 \* position inside ResourceManager::Init
  idx,                   \* Init's loop index idx
  rm_ret,                \* Init's local ret
  num_displays_,         \* ResourceManager::num_displays_
  drms_,                 \* ResourceManager::drms_: the devices pushed
  rm_result,             \* what ResourceManager::Init returned
  \* ---- DrmPlane --------------------------------------------------------
  hw_plane,              \* what the kernel reports of the plane's properties
  plane_,                \* the DrmPlane fields IsValidForLayer reads
  asked_layer,           \* the DrmHwcLayer of the last IsValidForLayer call
  is_valid,              \* what that call returned
  plane_pc,              \* "new", "ready" (Init done), "failed", "asked", "set"
  plane_ret,             \* what DrmPlane::Init returned
  pset,                  \* the properties AtomicSetState added to the request
  atomic_ret,            \* what AtomicSetState returned
  import_ret,            \* what DrmHwcLayer::ImportBuffer returned
  \* ---- VSyncWorker -----------------------------------------------------
  enabled_,              \* VSyncWorker::enabled_
  last_timestamp_,       \* VSyncWorker::last_timestamp_, -1 when unknown
  now,                   \* CLOCK_MONOTONIC
  vs_pc,                 \* where the worker thread is in Routine
  timestamp,             \* Routine's local timestamp
  wake,                  \* the last wake time SyntheticWaitVBlank computed
  control_in_flight,     \* VSyncControl was called during this iteration
  stale_phase,           \* last_timestamp_ was stored by such an iteration
  lock_,                 \* Worker::lock_: "free" or held by "worker"
  exit_,                 \* Worker::exit_
  waited,                \* how this iteration waited or why it ended
  vblank_from,           \* the clock when drmWaitVBlank was issued
  cb,                    \* what the callback has been called with so far
  \* ---- DrmConnector::UpdateModes --------------------------------------
  state_,                \* DrmConnector::state_ of every connector
  modes_,                \* DrmConnector::modes_ of every connector
  preferred_mode_id_,    \* DrmConnector::preferred_mode_id_
  mode_id_,              \* DrmDevice::mode_id_
  um_call                \* the last UpdateModes call and what it returned

devVars == <<res, display_order, pc, ret, num_displays, found_primary,
             connectors_, writeback_connectors_, conn_display, conn_encoder,
             enc_crtc, enc_display, crtc_display, displays_, pipe_i, result>>

planVars == <<plane_type, primary_planes, overlay_planes, comp, call>>

rmVars == <<nodes, path_wildcard, buffer_info, rm_pc, idx, rm_ret,
            num_displays_, drms_, rm_result>>

capVars == <<hw_plane, plane_, asked_layer, is_valid, plane_pc, plane_ret,
             pset, atomic_ret, import_ret>>

vsVars == <<enabled_, last_timestamp_, now, vs_pc, timestamp, wake,
            control_in_flight, stale_phase, lock_, exit_, waited, vblank_from,
            cb>>

\* the worker's own variables and the callback record
vsLocal == <<timestamp, wake, waited, vblank_from>>

modeVars == <<state_, modes_, preferred_mode_id_, mode_id_, um_call>>

vars == <<devVars, planVars, rmVars, capVars, vsVars, modeVars>>

\* what the actions of one part leave alone
besidesDev == <<planVars, rmVars, capVars, vsVars, modeVars>>
besidesPlan == <<devVars, rmVars, capVars, vsVars, modeVars>>
besidesRm == <<devVars, planVars, capVars, vsVars, modeVars>>
besidesCap == <<devVars, planVars, rmVars, vsVars, modeVars>>
besidesVs == <<devVars, planVars, rmVars, capVars, modeVars>>
besidesModes == <<devVars, planVars, rmVars, capVars, vsVars>>

\* the hardware of the model: two CRTCs and two encoders
CrtcIds == {1, 2}
EncoderIds == {1, 2}
NumCrtcs == Cardinality(CrtcIds)
NumEncoders == Cardinality(EncoderIds)
NoResult == <<>>

Min(S) == CHOOSE x \in S : \A y \in S : x <= y

\* the sequences over S without a repetition
SeqsNoRep(S) ==
  UNION {{q \in [1..n -> S] : \A i, j \in 1..n : i # j => q[i] # q[j]} :
           n \in 0..Cardinality(S)}

\* the sequences over S of length 1..n
SeqsUpTo(S, n) == UNION {[1..k -> S] : k \in 1..n}

\* no planning pass is under way (the model of DrmDevice::Init runs alone)
PlanIdle ==
  /\ plane_type = <<>>
  /\ primary_planes = <<>>
  /\ overlay_planes = <<>>
  /\ comp = <<>>
  /\ call = [op |-> "none"]

\* no device is being opened (the model of a planning pass runs alone)
DevIdle ==
  /\ res = [encoders |-> <<>>, connectors |-> <<>>, fail |-> "none"]
  /\ display_order = <<>>
  /\ pc = "idle"
  /\ ret = 0
  /\ num_displays = 0
  /\ found_primary = FALSE
  /\ connectors_ = <<>>
  /\ writeback_connectors_ = <<>>
  /\ conn_display = <<>>
  /\ conn_encoder = <<>>
  /\ enc_crtc = <<>>
  /\ enc_display = <<>>
  /\ crtc_display = <<>>
  /\ displays_ = {}
  /\ pipe_i = 0
  /\ result = <<>>

\* no ResourceManager is being initialized
RmIdle ==
  /\ nodes = <<>>
  /\ path_wildcard = FALSE
  /\ buffer_info = FALSE
  /\ rm_pc = "idle"
  /\ idx = 0
  /\ rm_ret = 0
  /\ num_displays_ = 0
  /\ drms_ = <<>>
  /\ rm_result = <<>>

\* no plane is being asked
CapIdle ==
  /\ hw_plane = <<>>
  /\ plane_ = <<>>
  /\ asked_layer = <<>>
  /\ is_valid = FALSE
  /\ plane_pc = "idle"
  /\ plane_ret = 0
  /\ pset = <<>>
  /\ atomic_ret = 0
  /\ import_ret = 0

\* no vsync worker runs
VsIdle ==
  /\ enabled_ = FALSE
  /\ last_timestamp_ = -1
  /\ now = 0
  /\ vs_pc = "idle"
  /\ timestamp = 0
  /\ wake = <<>>
  /\ control_in_flight = FALSE
  /\ stale_phase = FALSE
  /\ lock_ = "free"
  /\ exit_ = FALSE
  /\ waited = "none"
  /\ vblank_from = 0
  /\ cb = <<>>

\* no connector's modes are looked at
ModesIdle ==
  /\ state_ = <<>>
  /\ modes_ = <<>>
  /\ preferred_mode_id_ = <<>>
  /\ mode_id_ = 0
  /\ um_call = <<>>

\* the parts of the model that do not run
IdleBesidesDev == PlanIdle /\ RmIdle /\ CapIdle /\ VsIdle /\ ModesIdle
IdleBesidesPlan == DevIdle /\ RmIdle /\ CapIdle /\ VsIdle /\ ModesIdle
IdleBesidesRm == DevIdle /\ PlanIdle /\ CapIdle /\ VsIdle /\ ModesIdle
IdleBesidesCap == DevIdle /\ PlanIdle /\ RmIdle /\ VsIdle /\ ModesIdle
IdleBesidesVs == DevIdle /\ PlanIdle /\ RmIdle /\ CapIdle /\ ModesIdle
IdleBesidesModes == PlanIdle /\ RmIdle /\ CapIdle /\ VsIdle

(***************************************************************************)
(* Connector types and names (DrmConnector.cpp).                           *)
(***************************************************************************)
InternalTypes == {"LVDS", "eDP", "DSI", "Virtual", "DPI"}
ExternalTypes == {"HDMI-A", "DP", "DVI-D", "DVI-I", "VGA"}
\* kNames: the types below kTypesCount
NamedTypes == {"None", "VGA", "DVI-I", "DVI-D", "DVI-A", "Composite", "SVIDEO",
               "LVDS", "Component", "DIN", "DP", "HDMI-A", "HDMI-B", "TV",
               "eDP", "Virtual", "DSI"}
\* the connector types the model draws from: internal, external, neither,
\* internal without a name of its own, writeback
ModelTypes == {"eDP", "HDMI-A", "Composite", "DPI", "WRITEBACK"}

Wildcard == <<"...">>
UnknownName == <<"X-1">>

internal(c) == res.connectors[c].type \in InternalTypes
external(c) == res.connectors[c].type \in ExternalTypes
writeback(c) == res.connectors[c].type = "WRITEBACK"
connected(c) == res.connectors[c].connection = "connected"

\* the kernel numbers the connectors of one type 1, 2, ...
TypeIdIn(conns, c) == Cardinality({j \in 1..c : conns[j].type = conns[c].type})
NameIn(conns, c) ==
  IF conns[c].type \in NamedTypes
    THEN <<conns[c].type, TypeIdIn(conns, c)>>
    ELSE <<"None">>
name(c) == NameIn(res.connectors, c)

(***************************************************************************)
(* make_primary_display_candidates (DrmDevice.cpp).                        *)
(***************************************************************************)
Swap(s, i, j) == [s EXCEPT ![i] = s[j], ![j] = s[i]]

\* std::remove_if of the connectors that are not connected, order kept
ConnectedOf(conns) == SelectSeq(conns, LAMBDA c : connected(c))

\* The loop over display_order. curr is the position of curr_connector
\* (Len + 1 is std::end). std::find_if searches from std::begin, also over the
\* positions before curr. std::iter_swap with curr at std::end dereferences the
\* end iterator: undefined behaviour, reported as ub.
RECURSIVE PutListedFirst(_, _, _)
PutListedFirst(cands, curr, i) ==
  IF i > Len(display_order)
    THEN [cands |-> cands, curr |-> curr, ub |-> FALSE]
    ELSE LET found == {k \in 1..Len(cands) : name(cands[k]) = display_order[i]}
         IN IF found = {}
              THEN PutListedFirst(cands, curr, i + 1)
              ELSE IF curr > Len(cands)
                     THEN [cands |-> cands, curr |-> curr, ub |-> TRUE]
                     ELSE PutListedFirst(Swap(cands, Min(found), curr),
                                         curr + 1, i + 1)

OrderingsOf(S) ==
  {f \in [1..Cardinality(S) -> S] : \A x \in S : \E k \in DOMAIN f : f[k] = x}

\* the partition left out: the tail stays in enumeration order
PartitionSkipped(cands, curr) == {cands}

\* std::partition(curr, end, internal): the internal connectors of the tail
\* come first; the order inside the two groups is unspecified
PartitionTail(cands, curr) ==
  LET head == SubSeq(cands, 1, curr - 1)
      tail == {cands[k] : k \in curr..Len(cands)}
  IN {head \o p : p \in {q \in OrderingsOf(tail) :
                           \A a, b \in DOMAIN q :
                             (a < b /\ internal(q[b])) => internal(q[a])}}

\* The possible values of primary_candidates; ub reports the undefined
\* behaviour of the swap with the end iterator.
make_primary_display_candidates(conns) ==
  LET use_other == display_order[Len(display_order)] = Wildcard
      r == PutListedFirst(ConnectedOf(conns), 1, 1)
  IN IF r.ub THEN {[ub |-> TRUE, cands |-> <<>>]}
     ELSE IF use_other
       THEN {[ub |-> FALSE, cands |-> p] : p \in PartitionTail(r.cands, r.curr)}
       ELSE {[ub |-> FALSE, cands |-> SubSeq(r.cands, 1, r.curr - 1)]}

(***************************************************************************)
(* The display pipe: DrmCrtc, DrmEncoder, TryEncoderForDisplay,            *)
(* CreateDisplayPipe, AttachWriteback. A binding b is the record of the    *)
(* fields these functions read and write.                                  *)
(***************************************************************************)
Binding == [crtc_display |-> crtc_display, enc_crtc |-> enc_crtc,
            enc_display |-> enc_display, conn_encoder |-> conn_encoder,
            conn_display |-> conn_display]

\* DrmCrtc::can_bind
crtc_can_bind(b, crtc, display) ==
  b.crtc_display[crtc] = -1 \/ b.crtc_display[crtc] = display

\* DrmEncoder::can_bind
enc_can_bind(b, enc, display) ==
  b.enc_display[enc] = -1 \/ b.enc_display[enc] = display

\* DrmEncoder::set_crtc: the encoder takes the CRTC and the CRTC's display
set_crtc(b, enc, crtc) ==
  [b EXCEPT !.enc_crtc[enc] = crtc, !.enc_display[enc] = b.crtc_display[crtc]]

\* crtc->set_display(display); enc->set_crtc(crtc);
BindCrtc(b, display, enc, crtc) ==
  set_crtc([b EXCEPT !.crtc_display[crtc] = display], enc, crtc)

possible_crtcs(enc) == res.encoders[enc].possible_crtcs
possible_encoders(c) == res.connectors[c].encoders

\* TryEncoderForDisplay walking possible_crtcs() from its end
TryEncoderForDisplayFromEnd(b, display, enc) ==
  LET crtc == b.enc_crtc[enc]
      others == {c \in possible_crtcs(enc) :
                   c # crtc /\ crtc_can_bind(b, c, display)}
  IN IF crtc # 0 /\ crtc_can_bind(b, crtc, display)
       THEN [ret |-> 0, b |-> BindCrtc(b, display, enc, crtc)]
     ELSE IF others # {}
       THEN [ret |-> 0,
             b |-> BindCrtc(b, display, enc,
                            CHOOSE c \in others : \A o \in others : o <= c)]
     ELSE [ret |-> -EAGAIN, b |-> b]

TryEncoderForDisplay(b, display, enc) ==
  LET crtc == b.enc_crtc[enc]
      others == {c \in possible_crtcs(enc) :
                   c # crtc /\ crtc_can_bind(b, c, display)}
  IN IF crtc # 0 /\ crtc_can_bind(b, crtc, display)
       THEN [ret |-> 0, b |-> BindCrtc(b, display, enc, crtc)]
     ELSE IF others # {}
       THEN [ret |-> 0, b |-> BindCrtc(b, display, enc, Min(others))]
     ELSE [ret |-> -EAGAIN, b |-> b]

\* the loop of CreateDisplayPipe over connector->possible_encoders()
RECURSIVE TryPossibleEncoders(_, _, _)
TryPossibleEncoders(b, connector, i) ==
  IF i > Len(possible_encoders(connector))
    THEN [ret |-> -ENODEV, b |-> b]
    ELSE LET enc == possible_encoders(connector)[i]
             t == TryEncoderForDisplay(b, b.conn_display[connector], enc)
         IN IF t.ret = 0
              THEN [ret |-> 0, b |-> [t.b EXCEPT !.conn_encoder[connector] = enc]]
              ELSE TryPossibleEncoders(b, connector, i + 1)

CreateDisplayPipe(b, connector) ==
  LET display == b.conn_display[connector]
      t == TryEncoderForDisplay(b, display, b.conn_encoder[connector])
  IN IF b.conn_encoder[connector] # 0 /\ t.ret = 0
       THEN t
       ELSE TryPossibleEncoders(b, connector, 1)

\* DrmDevice::GetWritebackConnectorForDisplay: 0 is nullptr
GetWritebackConnectorForDisplay(b, wbs, display) ==
  LET found == {k \in 1..Len(wbs) : b.conn_display[wbs[k]] = display}
  IN IF found = {} THEN 0 ELSE wbs[Min(found)]

\* The places <<k, i>> of the loops of AttachWriteback that reach the bind:
\* writeback connector k (not yet on a display), its possible encoder i with
\* display_crtc among its possible CRTCs and free for the display.
AttachPlaces(b, wbs, display_crtc) ==
  {p \in (1..Len(wbs)) \X (1..NumEncoders) :
     /\ b.conn_display[wbs[p[1]]] < 0
     /\ p[2] <= Len(possible_encoders(wbs[p[1]]))
     /\ display_crtc \in possible_crtcs(possible_encoders(wbs[p[1]])[p[2]])
     /\ enc_can_bind(b, possible_encoders(wbs[p[1]])[p[2]],
                     b.crtc_display[display_crtc])}

FirstPlace(P) ==
  CHOOSE p \in P : \A q \in P : p[1] < q[1] \/ (p[1] = q[1] /\ p[2] <= q[2])

AttachWriteback(b, wbs, display_conn) ==
  LET display_crtc == b.enc_crtc[b.conn_encoder[display_conn]]
      display == b.crtc_display[display_crtc]
      P == AttachPlaces(b, wbs, display_crtc)
  IN IF GetWritebackConnectorForDisplay(b, wbs, display) # 0
       THEN [ret |-> -EINVAL, b |-> b]
     ELSE IF P = {}
       THEN [ret |-> -EINVAL, b |-> b]
     ELSE LET p == FirstPlace(P)
              wb == wbs[p[1]]
              writeback_enc == possible_encoders(wb)[p[2]]
              b1 == set_crtc(b, writeback_enc, display_crtc)
          IN [ret |-> 0,
              b |-> [b1 EXCEPT !.conn_encoder[wb] = writeback_enc,
                               !.conn_display[wb] = display]]

(***************************************************************************)
(* DrmDevice::Init.                                                        *)
(***************************************************************************)
ConnIds == 1..Len(res.connectors)

\* Init returns the failure with the displays counted so far
ReturnPartialCount(code) ==
  /\ result' = <<code, Cardinality(displays_')>>
  /\ pc' = "returned"

\* Init returns <<code, 0>>
ReturnFailure(code) ==
  /\ result' = <<code, 0>>
  /\ pc' = "returned"

\* lines 229-261: the connectors read before connector k, parted into
\* connectors_ and writeback_connectors_
DisplayConnectorsBefore(k) ==
  SelectSeq([c \in 1..(k - 1) |-> c], LAMBDA c : ~writeback(c))
WritebackConnectorsBefore(k) ==
  SelectSeq([c \in 1..(k - 1) |-> c], LAMBDA c : writeback(c))

\* the increment left out
SameDisplayNumber(n) == n

\* ++num_displays
NextDisplayNumber(n) == n + 1

\* conn.set_display(num_displays); displays_[num_displays] = num_displays;
\* ++num_displays; found_primary = true; on the locals and fields a
TakeDisplay(a, conn) ==
  [a EXCEPT !.conn_display[conn] = a.num_displays,
            !.displays_ = a.displays_ \cup {a.num_displays},
            !.found_primary = TRUE,
            !.num_displays = NextDisplayNumber(a.num_displays)]

\* lines 267-279: the first primary candidate gets the display number. With
\* the undefined behaviour of make_primary_display_candidates (the swap reads
\* and writes past the last candidate) the process may die there, or go on
\* with *begin(primary_candidates) any connector pointer left in the vector's
\* storage, or with no candidate.
SelectPrimary(a, conns) ==
  LET prs == make_primary_display_candidates(conns)
      live == [a EXCEPT !.crashed = FALSE]
  IN UNION {IF pr.ub
              THEN {[a EXCEPT !.crashed = TRUE], live}
                   \cup {IF ~a.found_primary THEN TakeDisplay(live, conns[k])
                                             ELSE live : k \in 1..Len(conns)}
              ELSE IF pr.cands # <<>> /\ ~a.found_primary
                THEN {TakeDisplay(live, pr.cands[1])}
                ELSE {live} : pr \in prs}

\* the loop giving display numbers to connected connectors only
RECURSIVE AssignLoopConnectedOnly(_, _, _)
AssignLoopConnectedOnly(a, conns, i) ==
  IF i > Len(conns) THEN a
  ELSE LET conn == conns[i]
       IN IF (external(conn) \/ internal(conn)) /\ connected(conn)
                 /\ (~a.found_primary \/ a.conn_display[conn] < 0)
            THEN AssignLoopConnectedOnly(TakeDisplay(a, conn), conns, i + 1)
            ELSE AssignLoopConnectedOnly(a, conns, i + 1)

\* the loop without the test of conn->display() < 0: a connector that has a
\* display number is given another one
RECURSIVE AssignLoopNoSkip(_, _, _)
AssignLoopNoSkip(a, conns, i) ==
  IF i > Len(conns) THEN a
  ELSE LET conn == conns[i]
       IN IF external(conn) \/ internal(conn)
            THEN AssignLoopNoSkip(TakeDisplay(a, conn), conns, i + 1)
            ELSE AssignLoopNoSkip(a, conns, i + 1)

\* lines 283-296: the loop over connectors_
RECURSIVE AssignLoop(_, _, _)
AssignLoop(a, conns, i) ==
  IF i > Len(conns) THEN a
  ELSE LET conn == conns[i]
       IN IF external(conn) \/ internal(conn)
            THEN IF ~a.found_primary
                   THEN AssignLoop(TakeDisplay(a, conn), conns, i + 1)
                 ELSE IF a.conn_display[conn] < 0
                   THEN AssignLoop(TakeDisplay(a, conn), conns, i + 1)
                 ELSE AssignLoop(a, conns, i + 1)
            ELSE AssignLoop(a, conns, i + 1)

\* lines 177, 267-296 on the connectors read: the outcomes of the locals and
\* fields
AssignDisplayNumbers(conns) ==
  {IF a.crashed THEN a ELSE AssignLoop(a, conns, 1) :
     a \in SelectPrimary([conn_display |-> conn_display,
                          displays_ |-> displays_,
                          found_primary |-> (num_displays # 0),
                          num_displays |-> num_displays,
                          crashed |-> FALSE], conns)}

\* lines 125-168: open, client caps, master, resources; each failure returns
\* at once with no display
OpenFails ==
  /\ pc = "open"
  /\ res.fail \in {"open", "master"}
  /\ ReturnFailure(IF res.fail = "master" THEN -EACCES ELSE -ENODEV)
  /\ UNCHANGED besidesDev
  /\ UNCHANGED <<res, display_order, ret, num_displays, found_primary,
                 connectors_, writeback_connectors_, conn_display,
                 conn_encoder, enc_crtc, enc_display, crtc_display, displays_,
                 pipe_i>>

\* lines 170-333 without a failure: every kernel object is read (the encoders
\* with their current CRTC, the connectors with their current encoder), the
\* display numbers are given, the planes and the event listener are set up
Discover ==
  /\ pc = "open"
  /\ res.fail = "none"
  /\ enc_crtc' = [e \in EncoderIds |-> res.encoders[e].crtc_id]
  /\ conn_encoder' = [c \in ConnIds |-> res.connectors[c].encoder_id]
  /\ connectors_' = DisplayConnectorsBefore(Len(res.connectors) + 1)
  /\ writeback_connectors_' = WritebackConnectorsBefore(Len(res.connectors) + 1)
  /\ ret' = 0
  /\ \E a \in AssignDisplayNumbers(connectors_') :
       /\ conn_display' = a.conn_display
       /\ displays_' = a.displays_
       /\ found_primary' = a.found_primary
       /\ num_displays' = a.num_displays
       /\ \/ /\ ~a.crashed
             /\ pc' = "pipes"
             /\ pipe_i' = 1
          \/ /\ a.crashed
             /\ pc' = "crashed"
             /\ pipe_i' = pipe_i
  /\ UNCHANGED besidesDev
  /\ UNCHANGED <<res, display_order, enc_display, crtc_display, result>>

\* lines 179-300: a CRTC or an encoder cannot be read (no connector is read
\* then: the loops' condition is !ret), or connector k cannot be read or its
\* Init fails (the connectors before it are in the lists). ret is set, the
\* display numbers are given all the same, then the catch-all returns.
EnumerationFails ==
  /\ pc = "open"
  /\ res.fail \in {"crtc", "connector"}
  /\ \E k \in ConnIds :
       /\ res.fail = "crtc" => k = 1
       /\ conn_encoder' = [c \in ConnIds |->
                             IF c < k THEN res.connectors[c].encoder_id ELSE 0]
       /\ connectors_' = DisplayConnectorsBefore(k)
       /\ writeback_connectors_' = WritebackConnectorsBefore(k)
  /\ enc_crtc' = IF res.fail = "crtc" THEN enc_crtc
                 ELSE [e \in EncoderIds |-> res.encoders[e].crtc_id]
  /\ ret' = -ENODEV
  /\ \E a \in AssignDisplayNumbers(connectors_') :
       /\ conn_display' = a.conn_display
       /\ displays_' = a.displays_
       /\ found_primary' = a.found_primary
       /\ num_displays' = a.num_displays
       /\ \/ /\ ~a.crashed
             /\ ReturnFailure(ret')
          \/ /\ a.crashed
             /\ pc' = "crashed"
             /\ result' = result
  /\ UNCHANGED besidesDev
  /\ UNCHANGED <<res, display_order, enc_display, crtc_display, pipe_i>>

\* lines 302-333: the plane resources, a plane or the event listener fails
\* after the display numbers are given
PlanesOrListenerFail ==
  /\ pc = "open"
  /\ res.fail \in {"planes", "listener"}
  /\ enc_crtc' = [e \in EncoderIds |-> res.encoders[e].crtc_id]
  /\ conn_encoder' = [c \in ConnIds |-> res.connectors[c].encoder_id]
  /\ connectors_' = DisplayConnectorsBefore(Len(res.connectors) + 1)
  /\ writeback_connectors_' = WritebackConnectorsBefore(Len(res.connectors) + 1)
  /\ ret' = IF res.fail = "planes" THEN -ENOENT ELSE -EINVAL
  /\ \E a \in AssignDisplayNumbers(connectors_') :
       /\ conn_display' = a.conn_display
       /\ displays_' = a.displays_
       /\ found_primary' = a.found_primary
       /\ num_displays' = a.num_displays
       /\ \/ /\ ~a.crashed
             /\ ReturnFailure(ret')
          \/ /\ a.crashed
             /\ pc' = "crashed"
             /\ result' = result
  /\ UNCHANGED besidesDev
  /\ UNCHANGED <<res, display_order, enc_display, crtc_display, pipe_i>>

\* lines 335-344, one round of the loop: CreateDisplayPipe, then
\* AttachWriteback (whose status is only logged)
PipeRound ==
  /\ pc = "pipes"
  /\ pipe_i <= Len(connectors_)
  /\ LET p == CreateDisplayPipe(Binding, connectors_[pipe_i])
     IN /\ p.ret = 0
        /\ LET w == AttachWriteback(p.b, writeback_connectors_,
                                    connectors_[pipe_i])
           IN /\ crtc_display' = w.b.crtc_display
              /\ enc_crtc' = w.b.enc_crtc
              /\ enc_display' = w.b.enc_display
              /\ conn_encoder' = w.b.conn_encoder
              /\ conn_display' = w.b.conn_display
  /\ pipe_i' = pipe_i + 1
  /\ UNCHANGED besidesDev
  /\ UNCHANGED <<res, display_order, pc, ret, num_displays, found_primary,
                 connectors_, writeback_connectors_, displays_, result>>

\* lines 336-340: CreateDisplayPipe fails, Init returns its status
PipeFails ==
  /\ pc = "pipes"
  /\ pipe_i <= Len(connectors_)
  /\ LET p == CreateDisplayPipe(Binding, connectors_[pipe_i])
     IN /\ p.ret # 0
        /\ ReturnFailure(p.ret)
  /\ UNCHANGED besidesDev
  /\ UNCHANGED <<res, display_order, ret, num_displays, found_primary,
                 connectors_, writeback_connectors_, conn_display,
                 conn_encoder, enc_crtc, enc_display, crtc_display, displays_,
                 pipe_i>>

\* line 345
InitReturns ==
  /\ pc = "pipes"
  /\ pipe_i > Len(connectors_)
  /\ result' = <<ret, Cardinality(displays_)>>
  /\ pc' = "returned"
  /\ UNCHANGED besidesDev
  /\ UNCHANGED <<res, display_order, ret, num_displays, found_primary,
                 connectors_, writeback_connectors_, conn_display,
                 conn_encoder, enc_crtc, enc_display, crtc_display, displays_,
                 pipe_i>>

(***************************************************************************)
(* What the kernel can report, and the property.                           *)
(***************************************************************************)
\* an encoder's current CRTC is one of its possible CRTCs
EncoderInputs ==
  {e \in [crtc_id : 0..NumCrtcs, possible_crtcs : SUBSET CrtcIds] :
     e.crtc_id = 0 \/ e.crtc_id \in e.possible_crtcs}

\* a connector's current encoder is one of its possible encoders
ConnectorInputs(types, connections) ==
  {c \in [type : types, connection : connections,
          encoder_id : 0..NumEncoders, encoders : SeqsNoRep(EncoderIds)] :
     c.encoder_id = 0 \/ \E i \in DOMAIN c.encoders : c.encoders[i] = c.encoder_id}

\* one encoder and one CRTC of its own for every connector, as far as they go
OwnEncoder(c) == ((c - 1) % NumEncoders) + 1
DedicatedEncoders ==
  [e \in EncoderIds |-> [crtc_id |-> IF e \in CrtcIds THEN e ELSE 0,
                         possible_crtcs |-> {e} \cap CrtcIds]]
DedicatedConnectors ==
  {cs \in SeqsUpTo([type : ModelTypes,
                    connection : {"connected", "disconnected"},
                    encoder_id : 0..NumEncoders,
                    encoders : SeqsNoRep(EncoderIds)], MaxConnectors) :
     \A c \in DOMAIN cs : /\ cs[c].encoder_id = OwnEncoder(c)
                          /\ cs[c].encoders = <<OwnEncoder(c)>>}

\* the entries a preference list is made of: the names of the connectors, the
\* wildcard and a name no connector has
OrderEntries(conns) ==
  {NameIn(conns, c) : c \in DOMAIN conns} \cup {Wildcard, UnknownName}

DevInitRest ==
  /\ pc = "open"
  /\ ret = 0
  /\ found_primary = FALSE
  /\ connectors_ = <<>>
  /\ writeback_connectors_ = <<>>
  /\ conn_display = [c \in DOMAIN res.connectors |-> -1]
  /\ conn_encoder = [c \in DOMAIN res.connectors |-> 0]
  /\ enc_crtc = [e \in EncoderIds |-> 0]
  /\ enc_display = [e \in EncoderIds |-> -1]
  /\ crtc_display = [c \in CrtcIds |-> -1]
  /\ displays_ = {}
  /\ pipe_i = 0
  /\ result = NoResult
  /\ IdleBesidesDev

\* what can fail in Init before the pipes are made
FailPoints == {"open", "master", "crtc", "connector", "planes", "listener"}

\* any connector types, states and preference list over a plain pipe topology
InitSelection ==
  /\ \E cs \in DedicatedConnectors :
       /\ res = [encoders |-> DedicatedEncoders, connectors |-> cs,
                 fail |-> "none"]
       /\ display_order \in SeqsUpTo(OrderEntries(cs), MaxOrderLen)
  /\ num_displays \in 0..MaxStartDisplays
  /\ DevInitRest

\* any failure of the kernel interface under the default preference list
InitFailing ==
  /\ res \in [encoders : {DedicatedEncoders}, connectors : DedicatedConnectors,
               fail : FailPoints]
  /\ display_order = <<Wildcard>>
  /\ num_displays \in 0..MaxStartDisplays
  /\ DevInitRest

\* any encoder and CRTC topology (as many connectors as there are encoders)
\* under the default preference list
InitTopology ==
  /\ res \in [encoders : [EncoderIds -> EncoderInputs],
               connectors : SeqsUpTo(ConnectorInputs({"HDMI-A", "Composite",
                                                      "WRITEBACK"},
                                                     {"connected"}),
                                     NumEncoders),
               fail : {"none"}]
  /\ display_order = <<Wildcard>>
  /\ num_displays = 0
  /\ DevInitRest

\* an encoder nothing is bound to when the device is opened
UnboundEncoderInputs == {e \in EncoderInputs : e.crtc_id = 0}

\* a connector without a current encoder
UnboundConnectorInputs(types) ==
  {c \in ConnectorInputs(types, {"connected"}) : c.encoder_id = 0}

\* display and writeback connectors, one more than there are encoders, on any
\* encoder and CRTC topology with nothing bound yet
InitWriteback ==
  /\ res \in [encoders : [EncoderIds -> UnboundEncoderInputs],
               connectors : [1..(NumEncoders + 1) ->
                               UnboundConnectorInputs({"HDMI-A", "WRITEBACK"})],
               fail : {"none"}]
  /\ display_order = <<Wildcard>>
  /\ num_displays = 0
  /\ DevInitRest

Init == InitSelection \/ InitFailing \/ InitTopology \/ InitWriteback

Next ==
  \/ OpenFails
  \/ Discover
  \/ EnumerationFails
  \/ PlanesOrListenerFail
  \/ PipeRound
  \/ PipeFails
  \/ InitReturns

Spec == Init /\ [][Next]_vars

(***************************************************************************)
(* Properties of DrmDevice::Init.                                          *)
(***************************************************************************)
InitSucceeded == pc = "returned" /\ result[1] = 0

\* the num_displays Init was called with
StartDisplays == num_displays - Cardinality(displays_)

AllConnectors ==
  {connectors_[k] : k \in 1..Len(connectors_)}
    \cup {writeback_connectors_[k] : k \in 1..Len(writeback_connectors_)}
DisplayConnectors == {connectors_[k] : k \in 1..Len(connectors_)}

\* the connector has an encoder whose CRTC is bound to the connector's display
HasPipe(c) ==
  /\ conn_encoder[c] # 0
  /\ enc_crtc[conn_encoder[c]] # 0
  /\ crtc_display[enc_crtc[conn_encoder[c]]] = conn_display[c]

\* C1: after a successful Init every connector with a display id d >= 0 has an
\* encoder whose CRTC is bound to display d, and no encoder is the pipe
\* encoder of two connectors with different display ids.
C1_OnePipePerDisplay ==
  InitSucceeded =>
    /\ \A c \in AllConnectors : conn_display[c] >= 0 => HasPipe(c)
    /\ \A c1, c2 \in AllConnectors :
         (/\ conn_display[c1] >= 0
          /\ conn_display[c2] >= 0
          /\ conn_display[c1] # conn_display[c2])
           => conn_encoder[c1] # conn_encoder[c2]

\* C2: after a successful Init no two display-capable connectors carry the
\* same non-negative display id and at most one CRTC is bound to a display id
DisplayIdsExclusive ==
  InitSucceeded =>
    /\ \A c1, c2 \in DisplayConnectors :
         (c1 # c2 /\ conn_display[c1] >= 0)
           => conn_display[c1] # conn_display[c2]
    /\ \A k1, k2 \in CrtcIds :
         (k1 # k2 /\ crtc_display[k1] >= 0)
           => crtc_display[k1] # crtc_display[k2]

\* C2: a CRTC bound to display d is never rebound to another display
CrtcNeverRebound ==
  \A k \in CrtcIds : crtc_display[k] >= 0 => crtc_display'[k] = crtc_display[k]

\* C2: after a successful Init the display ids of the display-capable
\* connectors are pairwise different, at most one CRTC is bound to a display
\* id, and no step of Init rebinds a bound CRTC to a different display.
C2_BindingExclusive == []DisplayIdsExclusive /\ [][CrtcNeverRebound]_vars

\* two connectors on two displays, each CRTC bound to one of them
C2_Witness ==
  /\ InitSucceeded
  /\ \E c1, c2 \in DisplayConnectors :
       /\ conn_display[c1] = 0
       /\ conn_display[c2] = 1
       /\ HasPipe(c1)
       /\ HasPipe(c2)

\* the preference list does not end with the wildcard and none of its names
\* is the name of a connected connector
NoWildcardNoMatch ==
  /\ display_order[Len(display_order)] # Wildcard
  /\ \A i \in DOMAIN display_order : \A c \in DisplayConnectors :
       connected(c) => name(c) # display_order[i]

\* the internal or external connectors of connectors_, by position
ClassedPositions ==
  {k \in 1..Len(connectors_) :
     internal(connectors_[k]) \/ external(connectors_[k])}

\* C9 as stated: with a preference list that does not end with the wildcard
\* and matches no connected connector, no connector is given display 0 and
\* Init reports zero displays (read here for the first device only, where
\* display 0 is still to be given).
C9_Original ==
  (pc = "returned" /\ NoWildcardNoMatch /\ StartDisplays = 0) =>
    /\ \A c \in DisplayConnectors : conn_display[c] # 0
    /\ result[2] = 0

\* C9 amended: with such a preference list the list yields no candidate, but
\* the first internal or external connector in enumeration order (connected or
\* not) is given the starting display number (display 0 on the first device),
\* no other kind of connector gets a display id, and a successful Init reports
\* as many displays as there are internal or external connectors: zero only
\* when there is none.
C9_FallbackToFirstClassed ==
  (pc = "returned" /\ NoWildcardNoMatch) =>
    /\ \A k \in 1..Len(connectors_) :
         (conn_display[connectors_[k]] >= 0) <=> (k \in ClassedPositions)
    /\ ClassedPositions # {} =>
         conn_display[connectors_[Min(ClassedPositions)]] = StartDisplays
    /\ result[1] = 0 => result[2] = Cardinality(ClassedPositions)

\* such a list, a connected internal connector, display 0 given, one display
\* reported
C9_Witness ==
  /\ InitSucceeded
  /\ NoWildcardNoMatch
  /\ StartDisplays = 0
  /\ \E c \in DisplayConnectors :
       connected(c) /\ internal(c) /\ conn_display[c] = 0
  /\ result[2] >= 1

\* the positions of the preference list that name a connected connector
MatchingEntries ==
  {i \in DOMAIN display_order :
     \E c \in DisplayConnectors : connected(c) /\ name(c) = display_order[i]}

\* C10: on the first device, when a name of the preference list matches a
\* connected connector, display 0 is given to the connected connector matching
\* the earliest such entry, whatever else the list contains (unmatched or
\* repeated names). Stated for the lists whose matching entries do not
\* outnumber the connected connectors, where the swap stays inside the
\* candidates and the code's behaviour is defined.
C10_FirstMatchWins ==
  (pc \in {"pipes", "returned"} /\ res.fail = "none" /\ StartDisplays = 0
     /\ MatchingEntries # {}
     /\ Cardinality(MatchingEntries) <= Len(ConnectedOf(connectors_))) =>
    \E c \in DisplayConnectors :
      /\ connected(c)
      /\ name(c) = display_order[Min(MatchingEntries)]
      /\ conn_display[c] = 0

(***************************************************************************)
(* DrmDisplayComposition (DrmDisplayComposition.cpp): the kind guard, the  *)
(* setters and Plan with the plane pools of a planning pass.               *)
(***************************************************************************)
PassDisplays == 1..NumPassDisplays
PlaneIds == 1..NumPlanes
DpmsModes == {"DRM_MODE_DPMS_ON", "DRM_MODE_DPMS_OFF"}
DisplayModes == {"mode-1", "mode-2"}

\* a composition as its constructor leaves it
EmptyComposition ==
  [type_ |-> "DRM_COMPOSITION_TYPE_EMPTY", layers_ |-> <<>>,
   geometry_changed_ |-> FALSE, dpms_mode_ |-> "DRM_MODE_DPMS_ON",
   display_mode_ |-> "none", composition_planes_ |-> <<>>]

\* the guard that lets every kind through
validate_any_type(c, des) == TRUE

validate_composition_type(c, des) ==
  c.type_ = "DRM_COMPOSITION_TYPE_EMPTY" \/ c.type_ = des

\* the composition after SetLayers(layers, num_layers, geometry_changed)
SetLayersEffect(c, layers, geometry_changed) ==
  [c EXCEPT !.geometry_changed_ = geometry_changed,
            !.layers_ = c.layers_ \o layers,
            !.type_ = "DRM_COMPOSITION_TYPE_FRAME"]

SetDpmsModeEffect(c, dpms_mode) ==
  [c EXCEPT !.dpms_mode_ = dpms_mode, !.type_ = "DRM_COMPOSITION_TYPE_DPMS"]

SetDisplayModeEffect(c, display_mode) ==
  [c EXCEPT !.display_mode_ = display_mode,
            !.dpms_mode_ = "DRM_MODE_DPMS_ON",
            !.type_ = "DRM_COMPOSITION_TYPE_MODESET"]

\* a setter's call: the guard rejects with -EINVAL before anything is written
Setter(d, op, des, effect) ==
  /\ IF validate_composition_type(comp[d], des)
       THEN /\ comp' = [comp EXCEPT ![d] = effect]
            /\ call' = [op |-> op, display |-> d, ret |-> 0]
       ELSE /\ comp' = comp
            /\ call' = [op |-> op, display |-> d, ret |-> -EINVAL]
  /\ UNCHANGED <<plane_type, primary_planes, overlay_planes>>
  /\ UNCHANGED besidesPlan

\* the layers handed to SetLayers: buffers of the frame
LayerArgs == {<<>>} \cup SeqsUpTo({"buffer"}, MaxLayers)

SetLayers ==
  \E d \in DOMAIN comp : \E layers \in LayerArgs : \E geometry_changed \in BOOLEAN :
    /\ Len(comp[d].layers_) + Len(layers) <= MaxLayers
    /\ Setter(d, "SetLayers", "DRM_COMPOSITION_TYPE_FRAME",
              SetLayersEffect(comp[d], layers, geometry_changed))

SetDpmsMode ==
  \E d \in DOMAIN comp : \E dpms_mode \in DpmsModes :
    Setter(d, "SetDpmsMode", "DRM_COMPOSITION_TYPE_DPMS",
           SetDpmsModeEffect(comp[d], dpms_mode))

SetDisplayMode ==
  \E d \in DOMAIN comp : \E display_mode \in DisplayModes :
    Setter(d, "SetDisplayMode", "DRM_COMPOSITION_TYPE_MODESET",
           SetDisplayModeEffect(comp[d], display_mode))

\* the keys counted from one
ToCompositeOneBased(layers) == 1..Len(layers)

\* lines 93-96: the keys of to_composite, the indices of layers_
ToComposite(layers) == 0..(Len(layers) - 1)

\* the planes of both pools
PoolPlanes(primary, overlay) ==
  {primary[k] : k \in DOMAIN primary} \cup {overlay[k] : k \in DOMAIN overlay}

\* The results Planner::ProvisionPlanes may give: a failure with no
\* composition plane, or composition planes that map layers of to_composite to
\* planes of the pools, no layer and no plane twice; a composition plane may
\* have no plane (0), and its layers come in any order.
ProvisionPlanes(to_composite, primary, overlay) ==
  LET one == [plane : PoolPlanes(primary, overlay) \cup {0},
              source_layers : SeqsNoRep(to_composite)]
      layersOf(cp) == {cp.source_layers[k] : k \in DOMAIN cp.source_layers}
      sound(cps) ==
        \A i, j \in DOMAIN cps :
          i # j => /\ cps[i].plane = 0 \/ cps[i].plane # cps[j].plane
                   /\ layersOf(cps[i]) \cap layersOf(cps[j]) = {}
  IN {[ret |-> -e, planes |-> <<>>] : e \in {ENODEV, EINVAL}}
       \cup {[ret |-> 0, planes |-> cps] :
               cps \in {x \in {<<>>} \cup SeqsUpTo(one, MaxCompositionPlanes) :
                          sound(x)}}

\* std::sort of a source-layer list
RECURSIVE SortAscending(_)
SortAscending(q) ==
  IF q = <<>> THEN <<>>
  ELSE LET m == Min({q[k] : k \in DOMAIN q})
           at == Min({k \in DOMAIN q : q[k] = m})
       IN <<m>> \o SortAscending(SubSeq(q, 1, at - 1) \o SubSeq(q, at + 1, Len(q)))

\* the erase left out: the plane stays in its pool
EraseNothing(container, plane) == container

\* the erase done by moving the last element into the hole
EraseSwapLast(container, plane) ==
  LET at == {k \in DOMAIN container : container[k] = plane}
  IN IF at = {} THEN container
     ELSE SubSeq([container EXCEPT ![Min(at)] = container[Len(container)]],
                 1, Len(container) - 1)

\* lines 122-127: the first element equal to the plane is erased
EraseFirst(container, plane) ==
  LET at == {k \in DOMAIN container : container[k] = plane}
  IN IF at = {} THEN container
     ELSE SubSeq(container, 1, Min(at) - 1)
            \o SubSeq(container, Min(at) + 1, Len(container))

\* the std::sort left out
SortSkipped(cp) == cp

\* line 115: the source layers of a composition plane after the loop body
SortSourceLayers(cp) == [cp EXCEPT !.source_layers = SortAscending(cp.source_layers)]

\* lines 110-128, the loop over composition_planes_ from position i on: s holds
\* the composition planes and the two pools
RECURSIVE RemoveUsedPlanes(_, _)
RemoveUsedPlanes(s, i) ==
  IF i > Len(s.planes) THEN s
  ELSE LET cp == s.planes[i]
       IN IF cp.plane = 0 THEN RemoveUsedPlanes(s, i + 1)
          ELSE LET sorted == [s EXCEPT !.planes[i] = SortSourceLayers(cp)]
               IN IF plane_type[cp.plane] = "DRM_PLANE_TYPE_PRIMARY"
                    THEN RemoveUsedPlanes(
                           [sorted EXCEPT !.primary = EraseFirst(s.primary, cp.plane)],
                           i + 1)
                    ELSE RemoveUsedPlanes(
                           [sorted EXCEPT !.overlay = EraseFirst(s.overlay, cp.plane)],
                           i + 1)

\* the planner's status not looked at: the loop runs and 0 is returned
PlanEffectStatusDropped(out, primary, overlay) ==
  [ret |-> 0] @@
  RemoveUsedPlanes([planes |-> out.planes, primary |-> primary,
                    overlay |-> overlay], 1)

\* what Plan leaves for a result of the planner: ret, composition_planes_ and
\* the pools
PlanEffect(out, primary, overlay) ==
  IF out.ret # 0
    THEN [ret |-> out.ret, planes |-> out.planes, primary |-> primary,
          overlay |-> overlay]
    ELSE [ret |-> 0] @@
         RemoveUsedPlanes([planes |-> out.planes, primary |-> primary,
                           overlay |-> overlay], 1)

\* Plan on a composition that is no frame: returns 0 at once
PlanNoFrame ==
  \E d \in DOMAIN comp :
    /\ comp[d].type_ # "DRM_COMPOSITION_TYPE_FRAME"
    /\ call' = [op |-> "Plan", display |-> d, ret |-> 0, frame |-> FALSE]
    /\ UNCHANGED <<plane_type, primary_planes, overlay_planes, comp>>
    /\ UNCHANGED besidesPlan

\* Plan on a frame: the planner provisions, then the used planes leave the
\* pools. call keeps the pools before the call and the planner's result.
Plan ==
  \E d \in DOMAIN comp :
    /\ comp[d].type_ = "DRM_COMPOSITION_TYPE_FRAME"
    /\ comp[d].composition_planes_ = <<>>
    /\ \E out \in ProvisionPlanes(ToComposite(comp[d].layers_),
                                  primary_planes, overlay_planes) :
         LET e == PlanEffect(out, primary_planes, overlay_planes)
         IN /\ comp' = [comp EXCEPT ![d].composition_planes_ = e.planes]
            /\ primary_planes' = e.primary
            /\ overlay_planes' = e.overlay
            /\ call' = [op |-> "Plan", display |-> d, ret |-> e.ret,
                        frame |-> TRUE, planner_ret |-> out.ret,
                        to_composite |-> ToComposite(comp[d].layers_),
                        primary_before |-> primary_planes,
                        overlay_before |-> overlay_planes,
                        provisioned |-> out.planes]
    /\ UNCHANGED plane_type
    /\ UNCHANGED besidesPlan

\* The pools a pass starts from: the device's planes by type, in the device's
\* order (cursor planes are in neither). Plan reads a plane only by identity
\* and type, so the devices that list their primary planes first, then the
\* overlay planes, then the cursor planes stand for all.
PlanesOfType(types, t) == SelectSeq([p \in PlaneIds |-> p], LAMBDA p : types[p] = t)

TypeRank(t) ==
  CASE t = "DRM_PLANE_TYPE_PRIMARY" -> 1
    [] t = "DRM_PLANE_TYPE_OVERLAY" -> 2
    [] OTHER -> 3

InitPools ==
  /\ plane_type \in {types \in [PlaneIds -> {"DRM_PLANE_TYPE_PRIMARY",
                                             "DRM_PLANE_TYPE_OVERLAY",
                                             "DRM_PLANE_TYPE_CURSOR"}] :
                       \A p, q \in PlaneIds :
                         p < q => TypeRank(types[p]) <= TypeRank(types[q])}
  /\ primary_planes = PlanesOfType(plane_type, "DRM_PLANE_TYPE_PRIMARY")
  /\ overlay_planes = PlanesOfType(plane_type, "DRM_PLANE_TYPE_OVERLAY")

\* the compositions of a pass as the setters leave them: a frame of up to
\* MaxLayers layers or a DPMS change
SetCompositions ==
  {SetLayersEffect(EmptyComposition, layers, TRUE) : layers \in LayerArgs}
    \cup {SetDpmsModeEffect(EmptyComposition, "DRM_MODE_DPMS_OFF")}

InitPlan ==
  /\ InitPools
  /\ comp \in [PassDisplays -> SetCompositions]
  /\ call = [op |-> "none"]
  /\ IdleBesidesPlan

NextPlan ==
  \/ PlanNoFrame
  \/ Plan

SpecPlan == InitPlan /\ [][NextPlan]_vars

\* the setters on the fresh compositions of a pass, no plane involved
InitComposition ==
  /\ plane_type = <<>>
  /\ primary_planes = <<>>
  /\ overlay_planes = <<>>
  /\ comp = [d \in PassDisplays |-> EmptyComposition]
  /\ call = [op |-> "none"]
  /\ IdleBesidesPlan

NextComposition ==
  \/ SetLayers
  \/ SetDpmsMode
  \/ SetDisplayMode

SpecComposition == InitComposition /\ [][NextComposition]_vars

(***************************************************************************)
(* Properties of a planning pass (SpecPlan) and of the setters             *)
(* (SpecComposition).                                                      *)
(***************************************************************************)
\* the last call was Plan on a frame
PlannedFrame == call.op = "Plan" /\ call.frame

\* the real planes a list of composition planes refers to
PlanesOf(cps) == {cps[i].plane : i \in DOMAIN cps} \ {0}

ElementsOf(q) == {q[k] : k \in DOMAIN q}

\* the positions of all composition planes of the pass that hold a real plane
PlanePositions ==
  {x \in PassDisplays \X (1..MaxCompositionPlanes) :
     /\ x[2] <= Len(comp[x[1]].composition_planes_)
     /\ comp[x[1]].composition_planes_[x[2]].plane # 0}

\* C3: through a planning pass on shared pools no plane is in two
\* CompositionPlanes, the planes the displays have consumed are in no pool (so
\* in no pool a later Plan sees), and a Plan that finds both pools empty gets
\* no plane.
C3_PlaneInOneCompositionPlane ==
  /\ \A x, y \in PlanePositions :
       x # y => comp[x[1]].composition_planes_[x[2]].plane
                  # comp[y[1]].composition_planes_[y[2]].plane
  /\ \A d \in PassDisplays :
       PlanesOf(comp[d].composition_planes_)
         \cap PoolPlanes(primary_planes, overlay_planes) = {}
  /\ PlannedFrame =>
       /\ \A e \in PassDisplays \ {call.display} :
            PlanesOf(comp[e].composition_planes_)
              \cap PoolPlanes(call.primary_before, call.overlay_before) = {}
       /\ (call.primary_before = <<>> /\ call.overlay_before = <<>>)
            => PlanesOf(comp[call.display].composition_planes_) = {}

\* a second display planned on pools the first had emptied and got a
\* composition plane without a plane
C3_Witness ==
  /\ PlannedFrame
  /\ call.ret = 0
  /\ call.primary_before = <<>>
  /\ call.overlay_before = <<>>
  /\ comp[call.display].composition_planes_ # <<>>
  /\ \E e \in PassDisplays \ {call.display} :
       Cardinality(PlanesOf(comp[e].composition_planes_)) >= 2

\* the pool without the consumed planes, the others in their order
Without(pool, consumed) == SelectSeq(pool, LAMBDA p : p \notin consumed)

\* C4: after a successful Plan each pool is its content before the call minus
\* the planes of the returned CompositionPlanes, the others in their order,
\* and the two pools together shrank by the number of planes consumed.
C4_PoolsMinusConsumed ==
  (PlannedFrame /\ call.ret = 0) =>
    LET consumed == PlanesOf(comp[call.display].composition_planes_)
    IN /\ primary_planes = Without(call.primary_before, consumed)
       /\ overlay_planes = Without(call.overlay_before, consumed)
       /\ Len(primary_planes) + Len(overlay_planes)
            = Len(call.primary_before) + Len(call.overlay_before)
                - Cardinality(consumed)

\* a Plan consumed the first plane of a pool of three and left the other two
C4_Witness ==
  /\ PlannedFrame
  /\ call.ret = 0
  /\ Len(call.overlay_before) = 3
  /\ PlanesOf(comp[call.display].composition_planes_) = {call.overlay_before[1]}
  /\ Len(overlay_planes) = 2

\* C5: when the planner fails Plan returns the planner's status and both
\* pools are as before the call.
C5_FailureLeavesPools ==
  (PlannedFrame /\ call.planner_ret # 0) =>
    /\ call.ret = call.planner_ret
    /\ primary_planes = call.primary_before
    /\ overlay_planes = call.overlay_before

\* the planner failed on pools that held planes
C5_Witness ==
  /\ PlannedFrame
  /\ call.planner_ret = -ENODEV
  /\ call.primary_before # <<>>
  /\ call.overlay_before # <<>>

\* how often layer index l is in the source lists of cps
Occurrences(cps, l) ==
  Cardinality({x \in (DOMAIN cps) \X (1..MaxLayers) :
                 /\ x[2] <= Len(cps[x[1]].source_layers)
                 /\ cps[x[1]].source_layers[x[2]] = l})

IsAscending(q) == \A k \in 1..(Len(q) - 1) : q[k] <= q[k + 1]

\* C7: after a successful Plan the source list of each CompositionPlane with a
\* real plane is the planner's list in ascending order, and a CompositionPlane
\* without a plane is as the planner returned it.
C7_SourceLayersSorted ==
  (PlannedFrame /\ call.ret = 0) =>
    LET cps == comp[call.display].composition_planes_
    IN /\ Len(cps) = Len(call.provisioned)
       /\ \A i \in DOMAIN cps :
            IF call.provisioned[i].plane # 0
              THEN /\ cps[i].plane = call.provisioned[i].plane
                   /\ IsAscending(cps[i].source_layers)
                   /\ Len(cps[i].source_layers)
                        = Len(call.provisioned[i].source_layers)
                   /\ ElementsOf(cps[i].source_layers)
                        = ElementsOf(call.provisioned[i].source_layers)
              ELSE cps[i] = call.provisioned[i]

\* the planner gave a plane the layers 1, 0 and a plane-less composition plane
\* came with it
C7_Witness ==
  /\ PlannedFrame
  /\ call.ret = 0
  /\ Len(call.provisioned) = 2
  /\ call.provisioned[1].plane # 0
  /\ call.provisioned[1].source_layers = <<1, 0>>
  /\ comp[call.display].composition_planes_[1].source_layers = <<0, 1>>
  /\ call.provisioned[2].plane = 0

\* the kind a setter makes
KindOf(op) ==
  CASE op = "SetLayers" -> "DRM_COMPOSITION_TYPE_FRAME"
    [] op = "SetDpmsMode" -> "DRM_COMPOSITION_TYPE_DPMS"
    [] op = "SetDisplayMode" -> "DRM_COMPOSITION_TYPE_MODESET"

\* one setter call on composition d
SetterStep(d) ==
  /\ call'.op \in {"SetLayers", "SetDpmsMode", "SetDisplayMode"}
  /\ call'.display = d

KindKept ==
  \A d \in DOMAIN comp :
    /\ comp[d].type_ # "DRM_COMPOSITION_TYPE_EMPTY" =>
         comp'[d].type_ = comp[d].type_
    /\ (SetterStep(d) /\ comp[d].type_ = "DRM_COMPOSITION_TYPE_EMPTY") =>
         /\ call'.ret = 0
         /\ comp'[d].type_ = KindOf(call'.op)
    /\ (SetterStep(d)
          /\ comp[d].type_ \notin {"DRM_COMPOSITION_TYPE_EMPTY", KindOf(call'.op)}) =>
         /\ call'.ret = -EINVAL
         /\ comp'[d] = comp[d]

\* C8: the first successful setter on an empty composition fixes its kind,
\* the kind never changes afterwards, and a later setter of another kind
\* returns -EINVAL and leaves kind, layers, DPMS mode and display mode as they
\* were, in every sequence of setter calls.
C8_OneKindForLife == [][KindKept]_vars

\* a frame with layers on which a setter of another kind was rejected
C8_Witness ==
  /\ call.op = "SetDisplayMode"
  /\ call.ret = -EINVAL
  /\ comp[call.display].type_ = "DRM_COMPOSITION_TYPE_FRAME"
  /\ Len(comp[call.display].layers_) = MaxLayers
  /\ comp[call.display].display_mode_ = "none"

(***************************************************************************)
(* Further properties of DrmDevice::Init: primary selection, display       *)
(* numbers, writeback connectors, failures.                                *)
(***************************************************************************)
\* the display numbers have been given (Init is in or past its pipe loop)
NumbersGiven == pc \in {"pipes", "returned"}

\* the list ends with the wildcard and none of its names is the name of a
\* connected connector
WildcardNoMatch ==
  /\ display_order[Len(display_order)] = Wildcard
  /\ MatchingEntries = {}

\* C11: on the first device, with a preference list that ends with the
\* wildcard and names no connected connector, display 0 is given to a
\* connected internal connector whenever there is one, before every connected
\* external or other connector.
C11_InternalBeforeOthers ==
  (/\ NumbersGiven
   /\ StartDisplays = 0
   /\ WildcardNoMatch
   /\ \E c \in DisplayConnectors : connected(c) /\ internal(c)) =>
    \E c \in DisplayConnectors :
      connected(c) /\ internal(c) /\ conn_display[c] = 0

\* a connected external connector is enumerated before the connected internal
\* one that got display 0
C11_Witness ==
  /\ NumbersGiven
  /\ StartDisplays = 0
  /\ WildcardNoMatch
  /\ Len(connectors_) = 2
  /\ connected(connectors_[1]) /\ external(connectors_[1])
  /\ connected(connectors_[2]) /\ internal(connectors_[2])
  /\ conn_display[connectors_[2]] = 0
  /\ conn_display[connectors_[1]] = 1

\* the display numbers the connectors of connectors_ carry
GivenNumbers == {conn_display[c] : c \in DisplayConnectors} \ {-1}

\* the numbers are pairwise different and run from the starting count on
NumbersConsecutive ==
  /\ \A c1, c2 \in DisplayConnectors :
       (c1 # c2 /\ conn_display[c1] >= 0) => conn_display[c1] # conn_display[c2]
  /\ GivenNumbers = StartDisplays..(num_displays - 1)

\* C12 as stated: after the display numbers are given, a connector that is not
\* connected has none, every connected internal or external connector has
\* one, and the numbers are consecutive from the starting count.
C12_Original ==
  NumbersGiven =>
    /\ \A c \in DisplayConnectors : ~connected(c) => conn_display[c] < 0
    /\ \A c \in DisplayConnectors :
         (connected(c) /\ (internal(c) \/ external(c))) => conn_display[c] >= 0
    /\ NumbersConsecutive

\* C12 amended: after primary selection every internal or external connector
\* of connectors_ without a display number, connected or not, is given the
\* next free number in enumeration order; a connector of another kind has a
\* number only as the primary (display 0); the numbers one Init gives are
\* pairwise different and consecutive from the starting count.
C12_ClassedGetNextNumbers ==
  NumbersGiven =>
    /\ \A k \in 1..Len(connectors_) :
         k \in ClassedPositions => conn_display[connectors_[k]] >= 0
    /\ \A k \in 1..Len(connectors_) :
         (k \notin ClassedPositions /\ conn_display[connectors_[k]] >= 0)
           => (StartDisplays = 0 /\ conn_display[connectors_[k]] = 0)
    /\ \A k1, k2 \in ClassedPositions :
         (/\ k1 < k2
          /\ conn_display[connectors_[k1]] # 0
          /\ conn_display[connectors_[k2]] # 0)
           => conn_display[connectors_[k1]] < conn_display[connectors_[k2]]
    /\ NumbersConsecutive

\* the second connector is the primary and a connector that is not connected
\* got display 1
C12_Witness ==
  /\ InitSucceeded
  /\ StartDisplays = 0
  /\ Len(connectors_) = 2
  /\ ~connected(connectors_[1]) /\ external(connectors_[1])
  /\ connected(connectors_[2])
  /\ conn_display[connectors_[2]] = 0
  /\ conn_display[connectors_[1]] = 1

WritebackConnectors ==
  {writeback_connectors_[k] : k \in 1..Len(writeback_connectors_)}

\* the writeback connector carries the display of the CRTC of its encoder, and
\* a connector of connectors_ has that display
AttachedToDisplay(wb) ==
  /\ conn_encoder[wb] # 0
  /\ enc_crtc[conn_encoder[wb]] # 0
  /\ crtc_display[enc_crtc[conn_encoder[wb]]] = conn_display[wb]
  /\ \E c \in DisplayConnectors : conn_display[c] = conn_display[wb]

\* the connectors of connectors_ that AttachWriteback can be called on
PipedConnectors ==
  {c \in DisplayConnectors :
     conn_encoder[c] # 0 /\ enc_crtc[conn_encoder[c]] # 0}

\* C13: a writeback connector is given no display number of its own: it has
\* none, or it carries the display of the CRTC of its encoder, which is the
\* display of a connector of connectors_; no two writeback connectors carry
\* the same display; AttachWriteback for a display that has a writeback
\* connector returns -EINVAL and changes nothing.
C13_WritebackFollowsDisplay ==
  (pc \in {"pipes", "returned"}) =>
    /\ \A wb \in WritebackConnectors :
         conn_display[wb] >= 0 => AttachedToDisplay(wb)
    /\ \A w1, w2 \in WritebackConnectors :
         (w1 # w2 /\ conn_display[w1] >= 0)
           => conn_display[w1] # conn_display[w2]
    /\ \A c \in PipedConnectors :
         GetWritebackConnectorForDisplay(
             Binding, writeback_connectors_,
             crtc_display[enc_crtc[conn_encoder[c]]]) # 0
           => AttachWriteback(Binding, writeback_connectors_, c)
                = [ret |-> -EINVAL, b |-> Binding]

\* C14: whenever Init returns a status that is not 0, the count of displays it
\* returns is 0, however many display numbers it had given before the failure.
C14_FailureCountsNoDisplay ==
  (pc = "returned" /\ result[1] # 0) => result[2] = 0

\* Init failed after it had given two display numbers
C14_Witness ==
  /\ pc = "returned"
  /\ result[1] # 0
  /\ result[2] = 0
  /\ Cardinality(displays_) = 2
  /\ \E c \in DisplayConnectors : conn_display[c] >= 0

(***************************************************************************)
(* ResourceManager (ResourceManager.cpp): Init over the device nodes,      *)
(* AddDrmDevice, GetDrmDevice. A node is what DrmDevice::IsKMSDev and      *)
(* DrmDevice::Init make of it: kms, where Init fails (early: before a      *)
(* display number is given; late: after) and the number of connectors Init *)
(* gives a display number.                                                 *)
(***************************************************************************)
NodeInputs ==
  {n \in [kms : BOOLEAN, fail : {"none", "early", "late"},
          connectors : 0..MaxDevDisplays] :
     /\ n.fail = "early" => n.connectors = 0
     /\ ~n.kms => (n.connectors = 0 /\ n.fail # "late")}

\* a path no node has: open fails
MissingNode == [kms |-> FALSE, fail |-> "early", connectors |-> 0]

NodeAt(k) == IF k <= Len(nodes) THEN nodes[k] ELSE MissingNode

\* What DrmDevice::Init(path, num_displays) returns and leaves in displays_:
\* a failure before the display numbers are given leaves displays_ empty; one
\* after them (enumeration, planes, event listener, pipe) returns no display
\* but leaves the numbers in displays_; success returns displays_.size().
DeviceInit(node, num) ==
  LET given == num..(num + node.connectors - 1)
  IN CASE node.fail = "early" ->
            [ret |-> -ENODEV, displays_added |-> 0, displays_ |-> {}]
       [] node.fail = "late" ->
            [ret |-> -ENODEV, displays_added |-> 0, displays_ |-> given]
       [] OTHER ->
            [ret |-> 0, displays_added |-> node.connectors, displays_ |-> given]

\* ResourceManager::AddDrmDevice on node k
AddDrmDevice(k) ==
  LET r == DeviceInit(NodeAt(k), num_displays_)
  IN /\ drms_' = Append(drms_, [node |-> k, ret |-> r.ret,
                                displays_ |-> r.displays_])
     /\ num_displays_' = num_displays_ + r.displays_added
     /\ rm_ret' = r.ret

\* DrmDevice::HandlesDisplay
HandlesDisplay(drm, display) == display \in drm.displays_

\* ResourceManager::GetDrmDevice: the position in drms_ of the first device
\* that handles the display, 0 for nullptr
GetDrmDevice(display) ==
  LET handling == {k \in DOMAIN drms_ : HandlesDisplay(drms_[k], display)}
  IN IF handling = {} THEN 0 ELSE Min(handling)

\* the loop goes on after an error
KeepsOpeningAfterError(r) == TRUE

\* the loop condition !ret
KeepsOpening(r) == r = 0

\* lines 42-43: a path without '%': the one device is added
InitSinglePath ==
  /\ rm_pc = "start"
  /\ ~path_wildcard
  /\ AddDrmDevice(1)
  /\ rm_pc' = "check"
  /\ UNCHANGED <<nodes, path_wildcard, buffer_info, idx, rm_result>>
  /\ UNCHANGED besidesRm

\* lines 44-46: the loop is entered with idx 0
InitEntersLoop ==
  /\ rm_pc = "start"
  /\ path_wildcard
  /\ idx' = 0
  /\ rm_pc' = "loop"
  /\ UNCHANGED <<nodes, path_wildcard, buffer_info, rm_ret, num_displays_,
                 drms_, rm_result>>
  /\ UNCHANGED besidesRm

\* lines 46-56, one round on a node that exists: a KMS device is added, any
\* other node is passed over
LoopRound ==
  /\ rm_pc = "loop"
  /\ KeepsOpening(rm_ret)
  /\ idx < Len(nodes)
  /\ IF nodes[idx + 1].kms
       THEN AddDrmDevice(idx + 1)
       ELSE UNCHANGED <<drms_, num_displays_, rm_ret>>
  /\ idx' = idx + 1
  /\ UNCHANGED <<nodes, path_wildcard, buffer_info, rm_pc, rm_result>>
  /\ UNCHANGED besidesRm

\* the loop ends: ret is set, or stat finds no node path<idx>
LoopEnds ==
  /\ rm_pc = "loop"
  /\ ~KeepsOpening(rm_ret) \/ idx >= Len(nodes)
  /\ rm_pc' = "check"
  /\ UNCHANGED <<nodes, path_wildcard, buffer_info, idx, rm_ret,
                 num_displays_, drms_, rm_result>>
  /\ UNCHANGED besidesRm

\* lines 59-73: what Init returns
RmInitReturns ==
  /\ rm_pc = "check"
  /\ rm_result' = IF num_displays_ = 0
                    THEN <<IF rm_ret # 0 THEN -EINVAL ELSE rm_ret>>
                  ELSE IF ~buffer_info THEN <<-EINVAL>>
                  ELSE <<0>>
  /\ rm_pc' = "done"
  /\ UNCHANGED <<nodes, path_wildcard, buffer_info, idx, rm_ret,
                 num_displays_, drms_>>
  /\ UNCHANGED besidesRm

InitResources ==
  /\ nodes \in {<<>>} \cup SeqsUpTo(NodeInputs, MaxNodes)
  /\ path_wildcard \in BOOLEAN
  /\ buffer_info \in BOOLEAN
  /\ rm_pc = "start"
  /\ idx = 0
  /\ rm_ret = 0
  /\ num_displays_ = 0
  /\ drms_ = <<>>
  /\ rm_result = <<>>
  /\ IdleBesidesRm

NextResources ==
  \/ InitSinglePath
  \/ InitEntersLoop
  \/ LoopRound
  \/ LoopEnds
  \/ RmInitReturns

SpecResources == InitResources /\ [][NextResources]_vars

\* the display numbers a device of the model can hold
DisplayIds == 0..(MaxNodes * MaxDevDisplays)

\* C15: a device whose Init failed handles no display (HandlesDisplay is false
\* for every display), GetDrmDevice never returns it, and GetDrmDevice(d) is
\* not null only for d below getDisplayCount().
C15_FailedDeviceNotPublished ==
  /\ \A k \in DOMAIN drms_ :
       drms_[k].ret # 0 =>
         \A d \in DisplayIds :
           ~HandlesDisplay(drms_[k], d) /\ GetDrmDevice(d) # k
  /\ \A d \in DisplayIds : GetDrmDevice(d) # 0 => d < num_displays_

\* the KMS nodes before the first one whose Init fails, and that one
FirstFailing ==
  LET failing == {k \in DOMAIN nodes : nodes[k].kms /\ nodes[k].fail # "none"}
  IN IF failing = {} THEN Len(nodes) + 1 ELSE Min(failing)

RECURSIVE DisplaysBefore(_)
DisplaysBefore(k) ==
  IF k <= 1 THEN 0
  ELSE DisplaysBefore(k - 1)
         + (IF nodes[k - 1].kms THEN nodes[k - 1].connectors ELSE 0)

\* the nodes AddDrmDevice was called on
Initialized == {drms_[j].node : j \in DOMAIN drms_}

\* the displays of the KMS nodes before node k whose Init succeeds
RECURSIVE WorkingDisplaysBefore(_)
WorkingDisplaysBefore(k) ==
  IF k <= 1 THEN 0
  ELSE WorkingDisplaysBefore(k - 1)
         + (IF nodes[k - 1].kms /\ nodes[k - 1].fail = "none"
              THEN nodes[k - 1].connectors ELSE 0)

\* C16 as stated: with a wildcard path, when the Init of one device fails,
\* every later KMS device node that exists is still initialized and its
\* displays are counted.
C16_Original ==
  (rm_pc = "done" /\ path_wildcard) =>
    /\ \A k \in DOMAIN nodes : nodes[k].kms => k \in Initialized
    /\ num_displays_ = WorkingDisplaysBefore(Len(nodes) + 1)

\* C16 amended: with a wildcard path ResourceManager::Init stops at the first
\* device whose Init fails: exactly the KMS nodes up to and including that
\* one are initialized, no later node is, the display count is the sum of
\* the displays of the devices before it, and Init still returns 0 when that
\* count is not zero (and the buffer info getter exists).
C16_StopsAtFirstFailure ==
  (rm_pc = "done" /\ path_wildcard) =>
    /\ Initialized = {k \in DOMAIN nodes : nodes[k].kms /\ k <= FirstFailing}
    /\ num_displays_ = DisplaysBefore(FirstFailing)
    /\ rm_result[1] = IF num_displays_ = 0
                        THEN (IF FirstFailing <= Len(nodes) THEN -EINVAL ELSE 0)
                      ELSE IF buffer_info THEN 0 ELSE -EINVAL

\* the first device gave a display, the second failed, the third, a KMS
\* device, was not opened, and Init returned 0
C16_Witness ==
  /\ rm_pc = "done"
  /\ path_wildcard
  /\ Len(nodes) = 3
  /\ nodes[3].kms
  /\ nodes[3].connectors > 0
  /\ FirstFailing = 2
  /\ Initialized = {1, 2}
  /\ num_displays_ >= 1
  /\ rm_result = <<0>>

(***************************************************************************)
(* DrmPlane (DrmPlane.cpp): the enum maps DrmPlane::Init builds from the   *)
(* plane's properties, and IsValidForLayer. A transform is the set of its  *)
(* DrmHwcTransform flags, the identity the empty set.                      *)
(***************************************************************************)
kIdentity == {}
kFlipH == {"kFlipH"}
kFlipV == {"kFlipV"}
kRotate90 == {"kRotate90"}
kRotate180 == {"kRotate180"}
kRotate270 == {"kRotate270"}

\* lines 79-90: the enum names of "rotation" Init asks for, with their keys
RotationEnums ==
  {<<"rotate-0", kIdentity>>, <<"rotate-90", kRotate90>>,
   <<"rotate-180", kRotate180>>, <<"rotate-270", kRotate270>>,
   <<"reflect-x", kFlipH>>, <<"reflect-y", kFlipV>>}

\* lines 98-103: the enum names of "pixel blend mode", with their keys
BlendEnums ==
  {<<"Pre-multiplied", "kPreMult">>, <<"Coverage", "kCoverage">>,
   <<"None", "kNone">>}

\* DrmProperty::AddEnumToMap for every pair: a key is in the map when the
\* property reports the enum name
AddEnumsToMap(enums, reported) == {e[2] : e \in {x \in enums : x[1] \in reported}}

\* lines 111-119: the enum names of COLOR_ENCODING, with their keys
ColorEncodingEnums ==
  {<<"ITU-R BT.709 YCbCr", "kItuRec709">>,
   <<"ITU-R BT.601 YCbCr", "kItuRec601">>,
   <<"ITU-R BT.2020 YCbCr", "kItuRec2020">>}

\* lines 124-129: the enum names of COLOR_RANGE, with their keys
ColorRangeEnums ==
  {<<"YCbCr full range", "kFullRange">>,
   <<"YCbCr limited range", "kLimitedRange">>}

\* lines 64-73: the properties Init cannot do without, in the order
\* AtomicSetState writes them
MandatoryProps ==
  <<"CRTC_ID", "FB_ID", "CRTC_X", "CRTC_Y", "CRTC_W", "CRTC_H",
    "SRC_X", "SRC_Y", "SRC_W", "SRC_H">>

\* lines 54-56: DRM_PLANE_TYPE_OVERLAY, _PRIMARY, _CURSOR
PlaneTypes == {"overlay", "primary", "cursor"}

\* BufferInfoGetter::IsDrmFormatRgb
IsDrmFormatRgb(format) == format \in {"XR24"}

\* DrmPlane::HasNonRgbFormat
HasNonRgbFormat(formats) == \E f \in formats : ~IsDrmFormatRgb(f)

\* DrmPlane::Init failing also when the plane has no rotation property
InitStatusNeedsRotation(hw) ==
  IF ~hw.type.present \/ hw.missing # {} \/ ~hw.rotation.present
    THEN -ENOTSUP
    ELSE IF ~hw.type.readable THEN -ENOENT
    ELSE IF hw.type.value \notin PlaneTypes THEN -EINVAL
    ELSE 0

\* DrmPlane::Init, lines 42-75: what it returns
InitStatus(hw) ==
  IF ~hw.type.present THEN -ENOTSUP
  ELSE IF ~hw.type.readable THEN -ENOENT
  ELSE IF hw.type.value \notin PlaneTypes THEN -EINVAL
  ELSE IF hw.missing # {} THEN -ENOTSUP
  ELSE 0

\* DrmPlane::DrmPlane and DrmPlane::Init: the fields of the plane after an
\* Init that returns 0. An optional property the kernel does not report stays
\* empty (id 0), its map empty.
PlaneFields(hw) ==
  [type_ |-> hw.type.value,
   zpos_property_ |-> hw.zpos,
   rotation_property_ |-> hw.rotation.present,
   transform_enum_map_ |->
     IF hw.rotation.present
       THEN AddEnumsToMap(RotationEnums, hw.rotation.enums) ELSE {},
   alpha_property_ |-> hw.alpha,
   blending_enum_map_ |->
     IF hw.blend.present THEN AddEnumsToMap(BlendEnums, hw.blend.enums) ELSE {},
   in_fence_fd_property_ |-> hw.in_fence,
   color_encoding_enum_map_ |->
     IF HasNonRgbFormat(hw.formats) /\ hw.color_encoding.present
       THEN AddEnumsToMap(ColorEncodingEnums, hw.color_encoding.enums) ELSE {},
   color_range_enum_map_ |->
     IF HasNonRgbFormat(hw.formats) /\ hw.color_range.present
       THEN AddEnumsToMap(ColorRangeEnums, hw.color_range.enums) ELSE {},
   formats_ |-> hw.formats]

\* the rotation rule with the test of a plane without the property left out
RotationRuleAnyWithoutProperty(p, l) ==
  p.rotation_property_ => l.transform \in p.transform_enum_map_

\* the rotation rule with the identity let through whatever the map holds
RotationRuleIdentityFree(p, l) ==
  IF ~p.rotation_property_
    THEN l.transform = kIdentity
    ELSE l.transform = kIdentity \/ l.transform \in p.transform_enum_map_

\* lines 145-155: the rotation rule
RotationRule(p, l) ==
  IF ~p.rotation_property_
    THEN l.transform = kIdentity
    ELSE l.transform \in p.transform_enum_map_

\* the alpha rule left out
AlphaRuleIgnored(p, l) == TRUE

\* lines 157-160
AlphaRule(p, l) == ~(~p.alpha_property_ /\ l.alpha # OpaqueAlpha)

\* lines 162-167
BlendRule(p, l) ==
  ~(/\ l.blending \notin p.blending_enum_map_
    /\ l.blending # "kNone"
    /\ l.blending # "kPreMult")

\* DrmPlane::IsFormatSupported
IsFormatSupported(p, format) == format \in p.formats_

\* DrmPlane::IsValidForLayer
IsValidForLayer(p, l) ==
  /\ RotationRule(p, l)
  /\ AlphaRule(p, l)
  /\ BlendRule(p, l)
  /\ IsFormatSupported(p, l.format)

\* a plane without the properties IsValidForLayer does not look at
NoProperty == [present |-> FALSE, enums |-> {}]
NoZpos == [present |-> FALSE, immutable |-> FALSE]
OverlayType == [present |-> TRUE, readable |-> TRUE, value |-> "overlay"]

\* what the kernel may report of a plane
PlaneInputs ==
  [type : {OverlayType},
   missing : {{}},
   zpos : {NoZpos},
   in_fence : {FALSE},
   color_encoding : {NoProperty},
   color_range : {NoProperty},
   rotation : {r \in [present : BOOLEAN,
                      enums : SUBSET {"rotate-0", "rotate-90", "rotate-180",
                                      "reflect-x"}] :
                 ~r.present => r.enums = {}},
   alpha : BOOLEAN,
   blend : {b \in [present : BOOLEAN,
                   enums : SUBSET {"Pre-multiplied", "Coverage", "None"}] :
              ~b.present => b.enums = {}},
   formats : SUBSET {"XR24", "NV12"}]

\* the layers a plane is asked about
LayerInputs ==
  [transform : {kIdentity, kFlipH, kRotate90, kRotate270,
                kFlipH \cup kRotate90},
   alpha : {OpaqueAlpha, OpaqueAlpha - 1, 0},
   blending : {"kNone", "kPreMult", "kCoverage"},
   format : {"XR24", "NV12"}]

\* DrmPlane::Init
PlaneInit ==
  /\ plane_pc = "new"
  /\ plane_ret' = InitStatus(hw_plane)
  /\ plane_' = IF plane_ret' = 0 THEN PlaneFields(hw_plane) ELSE plane_
  /\ plane_pc' = IF plane_ret' = 0 THEN "ready" ELSE "failed"
  /\ UNCHANGED <<hw_plane, asked_layer, is_valid, pset, atomic_ret,
                 import_ret>>
  /\ UNCHANGED besidesCap

\* one call of IsValidForLayer
AskPlane ==
  /\ plane_pc = "ready"
  /\ \E l \in LayerInputs :
       /\ asked_layer' = l
       /\ is_valid' = IsValidForLayer(plane_, l)
  /\ plane_pc' = "asked"
  /\ UNCHANGED <<hw_plane, plane_, plane_ret, pset, atomic_ret, import_ret>>
  /\ UNCHANGED besidesCap

InitCap ==
  /\ hw_plane \in PlaneInputs
  /\ plane_ = <<>>
  /\ asked_layer = <<>>
  /\ is_valid = FALSE
  /\ plane_pc = "new"
  /\ plane_ret = 0
  /\ pset = <<>>
  /\ atomic_ret = 0
  /\ import_ret = 0
  /\ IdleBesidesCap

NextCap ==
  \/ PlaneInit
  \/ AskPlane

SpecCap == InitCap /\ [][NextCap]_vars

(***************************************************************************)
(* Properties of DrmPlane::IsValidForLayer, stated over what the kernel    *)
(* reports of the plane (hw_plane) and the layer of the call.              *)
(***************************************************************************)
Asked == plane_pc = "asked"

\* the transforms mapped from the enum names the rotation property reports
MappedTransforms == AddEnumsToMap(RotationEnums, hw_plane.rotation.enums)

\* the blendings mapped from the enum names the blend property reports
MappedBlendings == AddEnumsToMap(BlendEnums, hw_plane.blend.enums)

\* the layer of the call meets the alpha, blend and format conditions
AlphaBlendFormatOk ==
  /\ hw_plane.alpha \/ asked_layer.alpha = OpaqueAlpha
  /\ \/ asked_layer.blending \in MappedBlendings
     \/ asked_layer.blending \in {"kNone", "kPreMult"}
  /\ asked_layer.format \in hw_plane.formats

\* the layer of the call passes the rotation rule
RotationPassed ==
  IF hw_plane.rotation.present
    THEN asked_layer.transform \in MappedTransforms
    ELSE asked_layer.transform = kIdentity

\* C17: a plane without a rotation property is never valid for a layer whose
\* transform is not the identity, whatever the layer's format, alpha and
\* blending.
C17_NoRotationOnlyIdentity ==
  (Asked /\ ~hw_plane.rotation.present /\ asked_layer.transform # kIdentity)
    => ~is_valid

\* C17 witness: a transformed layer that meets every other condition of a plane
\* without a rotation property has been refused.
C17_Witness ==
  /\ Asked
  /\ ~hw_plane.rotation.present
  /\ asked_layer.transform = kRotate90
  /\ AlphaBlendFormatOk
  /\ ~is_valid

\* C18 (as stated): on a plane with a rotation property, the identity passes
\* the rotation rule whatever enum names the property reports, and any other
\* transform passes only when it is mapped from the reported names.
C18_Original ==
  (Asked /\ hw_plane.rotation.present /\ AlphaBlendFormatOk)
    => (is_valid <=> (\/ asked_layer.transform = kIdentity
                      \/ asked_layer.transform \in MappedTransforms))

\* C18 (amended): on a plane with a rotation property, a transform, the
\* identity included, passes the rotation rule exactly when it is mapped from
\* the enum names the property reports; the identity passes only when the
\* property reports rotate-0.
C18_MappedTransformsOnly ==
  (Asked /\ hw_plane.rotation.present /\ AlphaBlendFormatOk)
    => /\ is_valid <=> asked_layer.transform \in MappedTransforms
       /\ asked_layer.transform = kIdentity
            => (is_valid <=> "rotate-0" \in hw_plane.rotation.enums)

\* C18 witness: a plane whose rotation property does not report rotate-0 has
\* refused an identity layer that meets every other condition.
C18_Witness ==
  /\ Asked
  /\ hw_plane.rotation.present
  /\ "rotate-0" \notin hw_plane.rotation.enums
  /\ hw_plane.rotation.enums # {}
  /\ asked_layer.transform = kIdentity
  /\ AlphaBlendFormatOk
  /\ ~is_valid

\* C19: for a layer that passes the rotation rule, the plane is valid exactly
\* when it has an alpha property or the layer is opaque, the layer's blending
\* is in the blend map or is none or pre-multiplied, and the plane supports
\* the layer's format; the call leaves the plane as it was.
C19_ValidExactly ==
  /\ [](Asked /\ RotationPassed => (is_valid <=> AlphaBlendFormatOk))
  /\ [][plane_pc' = "asked" => <<hw_plane, plane_>>' = <<hw_plane, plane_>>]_vars

\* C19 witness: a plane without an alpha property has accepted an opaque
\* coverage-blended layer of a format it supports.
C19_Witness ==
  /\ Asked
  /\ RotationPassed
  /\ ~hw_plane.alpha
  /\ asked_layer.blending = "kCoverage"
  /\ is_valid

(***************************************************************************)
(* VSyncWorker (VSyncWorker.cpp): VSyncControl on the caller's thread and  *)
(* Routine on the worker thread. The worker holds the lock from Lock to    *)
(* Unlock only; everything after Unlock, the test of enabled_ and the      *)
(* store of last_timestamp_ included, runs without it, so a VSyncControl   *)
(* call may fall between any two of these steps.                           *)
(***************************************************************************)
\* the wake time as one period after the clock, whatever the last timestamp
GetPhasedVSyncFromNow(frame_ns, current) == current + frame_ns

\* the wake time as the last phased time not after the clock
GetPhasedVSyncNoAdvance(frame_ns, current) ==
  IF last_timestamp_ < 0
    THEN current
    ELSE frame_ns * ((current - last_timestamp_) \div frame_ns)
           + last_timestamp_

\* VSyncWorker::GetPhasedVSync (current is never before last_timestamp_)
GetPhasedVSync(frame_ns, current) ==
  IF last_timestamp_ < 0
    THEN current + frame_ns
    ELSE frame_ns * ((current - last_timestamp_) \div frame_ns + 1)
           + last_timestamp_

\* the worker is past Unlock of an iteration
InFlight ==
  vs_pc \in {"vblank", "synthetic", "sleep", "check", "callback", "store"}

\* Worker::WaitForSignalOrExitLocked: -EINTR when the worker is to exit
WaitForSignalOrExitLocked(exiting) == IF exiting THEN -EINTR ELSE 0

\* Routine going on to the vblank wait whatever the wait for the signal
\* returned
AfterWaitIgnoresExit(r) == "vblank"

\* Routine after the wait for the signal: -EINTR ends the iteration
AfterWait(r) == IF r = -EINTR THEN "top" ELSE "vblank"

\* Worker::Signal: a worker blocked in WaitForSignalOrExitLocked goes on
Signal(at) ==
  IF at = "signal" THEN AfterWait(WaitForSignalOrExitLocked(FALSE)) ELSE at

\* nothing has been passed to the callback yet
NoCallback ==
  [last |-> -1, prev |-> -1, path |-> "none", t0 |-> -1, hw_since |-> FALSE,
   off |-> 0]

\* VSyncWorker::VSyncControl
VSyncControl ==
  /\ vs_pc \notin {"idle", "exited"}
  /\ lock_ = "free"
  /\ \E enabled \in BOOLEAN :
       /\ enabled_' = enabled
       /\ cb' = [cb EXCEPT !.t0 = -1, !.hw_since = FALSE,
                           !.off = IF enabled \/ enabled_ THEN 0 ELSE @]
  /\ last_timestamp_' = -1
  /\ stale_phase' = FALSE
  /\ control_in_flight' = InFlight
  /\ vs_pc' = Signal(vs_pc)
  /\ vblank_from' = IF vs_pc = "signal" THEN now ELSE vblank_from
  /\ waited' = IF vs_pc = "signal" THEN "none" ELSE waited
  /\ UNCHANGED <<now, timestamp, wake, lock_, exit_>>
  /\ UNCHANGED besidesVs

\* Worker::Exit: exit_ is set under the lock and the worker is signalled
Exit ==
  /\ vs_pc \notin {"idle", "exited"}
  /\ lock_ = "free"
  /\ ~exit_
  /\ exit_' = TRUE
  /\ vs_pc' = IF vs_pc = "signal"
                THEN AfterWait(WaitForSignalOrExitLocked(TRUE))
                ELSE vs_pc
  /\ vblank_from' = IF vs_pc' = "vblank" /\ vs_pc = "signal"
                      THEN now ELSE vblank_from
  /\ UNCHANGED <<enabled_, last_timestamp_, now, timestamp, wake,
                 control_in_flight, stale_phase, lock_, waited, cb>>
  /\ UNCHANGED besidesVs

\* Worker::InternalRoutine: the loop ends when exit_ is set
WorkerExits ==
  /\ vs_pc = "top"
  /\ exit_
  /\ vs_pc' = "exited"
  /\ UNCHANGED <<enabled_, last_timestamp_, now, control_in_flight,
                 stale_phase, lock_, exit_, cb>>
  /\ UNCHANGED vsLocal
  /\ UNCHANGED besidesVs

\* Routine: Lock
RoutineLock ==
  /\ vs_pc = "top"
  /\ ~exit_
  /\ lock_ = "free"
  /\ lock_' = "worker"
  /\ vs_pc' = "locked"
  /\ waited' = "none"
  /\ control_in_flight' = FALSE
  /\ UNCHANGED <<enabled_, last_timestamp_, now, timestamp, wake, stale_phase,
                 exit_, vblank_from, cb>>
  /\ UNCHANGED besidesVs

\* Routine waiting for the signal without testing the flag
EnterAlwaysBlocks(on) == "signal"

\* Routine going on to the vblank wait whether enabled or not
EnterNeverBlocks(on) == "vblank"

\* if (!enabled_) WaitForSignalOrExitLocked()
EnterStep(on) == IF on THEN "vblank" ELSE "signal"

\* Routine, to Unlock: a disabled worker waits for the signal, which gives
\* the lock up
RoutineEnter ==
  /\ vs_pc = "locked"
  /\ vs_pc' = EnterStep(enabled_)
  /\ lock_' = "free"
  /\ vblank_from' = now
  /\ waited' = IF vs_pc' = "signal" THEN "signal" ELSE "none"
  /\ UNCHANGED <<enabled_, last_timestamp_, now, timestamp, wake,
                 control_in_flight, stale_phase, exit_, cb>>
  /\ UNCHANGED besidesVs

\* Routine taking an interrupted drmWaitVBlank for a failed one
AfterVBlankEintrFallsBack(r) == IF r = 0 THEN "check" ELSE "synthetic"

\* Routine after drmWaitVBlank, lines 146-153: -EINTR ends the iteration, any
\* other failure calls SyntheticWaitVBlank
AfterVBlank(r) ==
  IF r = -EINTR THEN "top"
  ELSE IF r # 0 THEN "synthetic"
  ELSE "check"

\* GetCrtcForDisplay returns no crtc: the iteration ends
NoCrtc ==
  /\ vs_pc = "vblank"
  /\ waited = "none"
  /\ waited' = "nocrtc"
  /\ vs_pc' = "top"
  /\ UNCHANGED <<enabled_, last_timestamp_, now, timestamp, wake,
                 control_in_flight, stale_phase, lock_, exit_, vblank_from, cb>>
  /\ UNCHANGED besidesVs

\* drmWaitVBlank returns with the time of the next vblank, which is later
\* than the request
VBlankArrives ==
  /\ vs_pc = "vblank"
  /\ now > vblank_from
  /\ timestamp' = now
  /\ waited' = "hw"
  /\ vs_pc' = AfterVBlank(0)
  /\ UNCHANGED <<enabled_, last_timestamp_, now, wake, control_in_flight,
                 stale_phase, lock_, exit_, vblank_from, cb>>
  /\ UNCHANGED besidesVs

\* drmWaitVBlank returns -EINTR: the iteration ends
VBlankInterrupted ==
  /\ vs_pc = "vblank"
  /\ waited' = "eintr"
  /\ vs_pc' = AfterVBlank(-EINTR)
  /\ UNCHANGED <<enabled_, last_timestamp_, now, timestamp, wake,
                 control_in_flight, stale_phase, lock_, exit_, vblank_from, cb>>
  /\ UNCHANGED besidesVs

\* drmWaitVBlank fails otherwise: SyntheticWaitVBlank is called
VBlankFails ==
  /\ vs_pc = "vblank"
  /\ waited' = "hwfail"
  /\ vs_pc' = AfterVBlank(-EINVAL)
  /\ UNCHANGED <<enabled_, last_timestamp_, now, timestamp, wake,
                 control_in_flight, stale_phase, lock_, exit_, vblank_from, cb>>
  /\ UNCHANGED besidesVs

\* SyntheticWaitVBlank returns non-zero, clock_gettime or clock_nanosleep
\* having failed: the iteration ends
SyntheticFails ==
  /\ vs_pc \in {"synthetic", "sleep"}
  /\ waited' = "synfail"
  /\ vs_pc' = "top"
  /\ UNCHANGED <<enabled_, last_timestamp_, now, timestamp, wake,
                 control_in_flight, stale_phase, lock_, exit_, vblank_from, cb>>
  /\ UNCHANGED besidesVs

\* SyntheticWaitVBlank reads the clock and computes the wake time
SyntheticCompute ==
  /\ vs_pc = "synthetic"
  /\ wake' = [current |-> now,
              target |-> GetPhasedVSync(Period, now),
              stale |-> stale_phase]
  /\ vs_pc' = "sleep"
  /\ UNCHANGED <<enabled_, last_timestamp_, now, timestamp, control_in_flight,
                 stale_phase, lock_, exit_, waited, vblank_from, cb>>
  /\ UNCHANGED besidesVs

\* clock_nanosleep returns at the wake time or later
SyntheticWakes ==
  /\ vs_pc = "sleep"
  /\ now >= wake.target
  /\ timestamp' = wake.target
  /\ waited' = "syn"
  /\ vs_pc' = "check"
  /\ UNCHANGED <<enabled_, last_timestamp_, now, wake, control_in_flight,
                 stale_phase, lock_, exit_, vblank_from, cb>>
  /\ UNCHANGED besidesVs

\* if (!enabled_) return, whatever the wait was
CheckSkipped(on) == "callback"

\* if (!enabled_) return
CheckStep(on) == IF on THEN "callback" ELSE "top"

\* if (!enabled_) return
CheckEnabled ==
  /\ vs_pc = "check"
  /\ vs_pc' = CheckStep(enabled_)
  /\ UNCHANGED <<enabled_, last_timestamp_, now, control_in_flight,
                 stale_phase, lock_, exit_, cb>>
  /\ UNCHANGED vsLocal
  /\ UNCHANGED besidesVs

\* callback_(timestamp)
Callback ==
  /\ vs_pc = "callback"
  /\ cb' = [last |-> timestamp,
            prev |-> cb.last,
            path |-> waited,
            t0 |-> IF cb.t0 < 0 THEN timestamp ELSE cb.t0,
            hw_since |-> cb.hw_since \/ (cb.t0 >= 0 /\ waited = "hw"),
            off |-> IF enabled_ THEN 0 ELSE cb.off + 1]
  /\ vs_pc' = "store"
  /\ UNCHANGED <<enabled_, last_timestamp_, now, control_in_flight,
                 stale_phase, lock_, exit_>>
  /\ UNCHANGED vsLocal
  /\ UNCHANGED besidesVs

\* last_timestamp_ = timestamp
StoreTimestamp ==
  /\ vs_pc = "store"
  /\ last_timestamp_' = timestamp
  /\ stale_phase' = control_in_flight
  /\ vs_pc' = "top"
  /\ UNCHANGED <<enabled_, now, control_in_flight, lock_, exit_, cb>>
  /\ UNCHANGED vsLocal
  /\ UNCHANGED besidesVs

\* the clock advances
Tick ==
  /\ vs_pc # "idle"
  /\ now < MaxTime
  /\ now' = now + 1
  /\ UNCHANGED <<enabled_, last_timestamp_, vs_pc, control_in_flight,
                 stale_phase, lock_, exit_, cb>>
  /\ UNCHANGED vsLocal
  /\ UNCHANGED besidesVs

\* VSyncWorker::VSyncWorker
InitVSync ==
  /\ enabled_ = FALSE
  /\ last_timestamp_ = -1
  /\ now = 0
  /\ vs_pc = "top"
  /\ timestamp = 0
  /\ wake = <<>>
  /\ control_in_flight = FALSE
  /\ stale_phase = FALSE
  /\ lock_ = "free"
  /\ exit_ = FALSE
  /\ waited = "none"
  /\ vblank_from = 0
  /\ cb = NoCallback
  /\ IdleBesidesVs

NextVSync ==
  \/ VSyncControl
  \/ Exit
  \/ WorkerExits
  \/ RoutineLock
  \/ RoutineEnter
  \/ NoCrtc
  \/ VBlankArrives
  \/ VBlankInterrupted
  \/ VBlankFails
  \/ SyntheticFails
  \/ SyntheticCompute
  \/ SyntheticWakes
  \/ CheckEnabled
  \/ Callback
  \/ StoreTimestamp
  \/ Tick

SpecVSync == InitVSync /\ [][NextVSync]_vars

\* C20: a wake time SyntheticWaitVBlank computes is never phased from a
\* timestamp that an iteration already in flight at the last VSyncControl call
\* has stored: after such a call the wake is the clock plus one period until
\* an iteration begun after the call stores a timestamp.
C20_NoStalePhase ==
  (vs_pc = "sleep" /\ wake.stale) => wake.target = wake.current + Period

\* the worker runs
VsRuns == vs_pc # "idle"

\* C21 (as stated): with no VSyncControl call in between, every timestamp
\* emitted on the synthetic path after the first post-enable timestamp t0 is a
\* whole number of periods after t0.
C21_Original ==
  (VsRuns /\ cb.path = "syn" /\ cb.t0 >= 0) => (cb.last - cb.t0) % Period = 0

\* C21 (amended): with no VSyncControl call in between, a timestamp emitted
\* on the synthetic path is a whole number of periods after the timestamp of
\* the callback before it, and a whole number of periods after t0 when no
\* hardware timestamp was emitted since t0.
C21_PhasedFromLastCallback ==
  /\ (VsRuns /\ cb.path = "syn" /\ cb.t0 >= 0 /\ cb.prev >= cb.t0)
       => (cb.last - cb.prev) % Period = 0
  /\ (VsRuns /\ cb.path = "syn" /\ cb.t0 >= 0 /\ ~cb.hw_since)
       => (cb.last - cb.t0) % Period = 0

\* C21 witness: a synthetic timestamp more than one period after t0 has been
\* emitted, with synthetic timestamps only since t0.
C21_Witness ==
  /\ VsRuns
  /\ cb.path = "syn"
  /\ cb.t0 >= 0
  /\ ~cb.hw_since
  /\ cb.last > cb.t0 + Period

\* C22: the timestamp of a callback is later than the timestamp of the
\* callback before it.
C22_CallbacksIncrease == (VsRuns /\ cb.prev >= 0) => cb.last > cb.prev

\* C22 witness: two callbacks with a VSyncControl call between them, the
\* second on the synthetic path.
C22_Witness ==
  /\ VsRuns
  /\ cb.prev >= 0
  /\ cb.t0 = cb.last
  /\ cb.path = "syn"

\* C23: an iteration that finds the timer enabled after its wait passes its
\* timestamp to the callback once and then stores it as last_timestamp_; one
\* that finds it disabled calls nothing and stores nothing; the callback is
\* called nowhere else.
C23_CallbackThenStore ==
  /\ [][(vs_pc = "check" /\ vs_pc' # "check")
          => IF enabled_
               THEN vs_pc' = "callback" /\ cb' = cb
               ELSE /\ vs_pc' = "top"
                    /\ cb' = cb
                    /\ last_timestamp_' = last_timestamp_]_vars
  /\ [][(vs_pc = "callback" /\ vs_pc' # "callback")
          => vs_pc' = "store" /\ cb'.last = timestamp /\ cb'.prev = cb.last]_vars
  /\ [][(vs_pc = "store" /\ vs_pc' # "store")
          => /\ vs_pc' = "top"
             /\ last_timestamp_' = timestamp
             /\ cb' = cb]_vars
  /\ [][(VsRuns /\ <<cb.last, cb.prev>>' # <<cb.last, cb.prev>>)
          => vs_pc = "callback"]_vars

\* C23 witness: an iteration has called the callback with its timestamp and
\* stored it.
C23_Witness ==
  /\ vs_pc = "top"
  /\ waited \in {"hw", "syn"}
  /\ cb.last = timestamp
  /\ last_timestamp_ = timestamp

\* C24: the worker holds the mutex whenever its next step reads or writes
\* enabled_ or last_timestamp_.
C24_AccessUnderMutex ==
  vs_pc \in {"locked", "synthetic", "check", "store"} => lock_ = "worker"

\* C25: while the timer is disabled, at most one callback is delivered since
\* it was disabled, and an iteration that starts disabled blocks in the wait
\* for the signal.
C25_AtMostOneAfterDisable ==
  /\ []((VsRuns /\ ~enabled_) => cb.off <= 1)
  /\ [][(vs_pc = "locked" /\ vs_pc' # "locked" /\ ~enabled_)
          => vs_pc' = "signal"]_vars

\* C25 witness: the wait in flight at VSyncControl(false) has delivered its
\* callback and the worker blocks.
C25_Witness ==
  /\ vs_pc = "signal"
  /\ ~enabled_
  /\ cb.off = 1

C32_EndsWithoutCallback ==
  /\ [][(waited' # waited /\ waited' \in {"eintr", "synfail", "nocrtc"})
          => /\ vs_pc' = "top"
             /\ cb' = cb
             /\ enabled_' = enabled_
             /\ last_timestamp_' = last_timestamp_]_vars
  /\ [][(waited' # waited /\ waited' = "hwfail")
          => /\ vs_pc' = "synthetic"
             /\ cb' = cb
             /\ enabled_' = enabled_
             /\ last_timestamp_' = last_timestamp_]_vars

\* C32 witness: an iteration of an enabled timer that had delivered a
\* callback before has ended on an interrupted drmWaitVBlank.
C32_Witness ==
  /\ vs_pc = "top"
  /\ waited = "eintr"
  /\ enabled_
  /\ cb.last >= 0
  /\ last_timestamp_ = cb.last

\* the clock advances while the worker waits for it
LiveTick ==
  /\ \/ vs_pc = "vblank" /\ now <= vblank_from
     \/ vs_pc = "sleep" /\ now < wake.target
  /\ Tick

\* the steps of the worker thread with a crtc bound and waits that succeed
WorkerStep ==
  \/ WorkerExits
  \/ RoutineLock
  \/ RoutineEnter
  \/ VBlankArrives
  \/ VBlankFails
  \/ SyntheticCompute
  \/ SyntheticWakes
  \/ CheckEnabled
  \/ Callback
  \/ StoreTimestamp

NextVSyncLive ==
  \/ VSyncControl
  \/ Exit
  \/ WorkerStep
  \/ LiveTick

\* the worker thread is scheduled and the clock runs while it is waited for
SpecVSyncLive ==
  /\ InitVSync
  /\ [][NextVSyncLive]_vars
  /\ WF_vars(WorkerStep)
  /\ WF_vars(LiveTick)

\* C31: a timer that is enabled, whether the worker was blocked in the wait
\* for the signal or about to test the flag when it was enabled, has its
\* callback called, and again after every callback, unless it is disabled or
\* the worker is told to exit first (or the clock of the model runs out).
C31_NoLostWakeUp ==
  (enabled_ /\ ~exit_)
    ~> (vs_pc = "store" \/ ~enabled_ \/ exit_ \/ now = MaxTime)

\* C31 witness: the first callback after the timer was enabled has been
\* delivered, well before the clock of the model runs out.
C31_Witness ==
  /\ vs_pc = "store"
  /\ enabled_
  /\ ~exit_
  /\ cb.prev = -1
  /\ cb.t0 = timestamp
  /\ now + Period < MaxTime

\* the last timestamps, periods and clock values GetPhasedVSync is called
\* with, those of the example in its comment included
PhaseLasts == (-1 .. 6) \cup {137}
PhaseFrames == (1 .. 4) \cup {50}
PhaseCurrents == (0 .. 12) \cup {683}

\* one call of GetPhasedVSync, as SyntheticWaitVBlank makes it
PhaseCall ==
  /\ vs_pc = "phase"
  /\ \E frame_ns \in PhaseFrames :
       wake' = [frame_ns |-> frame_ns,
                current |-> now,
                target |-> GetPhasedVSync(frame_ns, now)]
  /\ vs_pc' = "phased"
  /\ UNCHANGED <<enabled_, last_timestamp_, now, timestamp, control_in_flight,
                 stale_phase, lock_, exit_, waited, vblank_from, cb>>
  /\ UNCHANGED besidesVs

\* a last timestamp, unknown or not after the clock
InitPhase ==
  /\ last_timestamp_ \in PhaseLasts
  /\ now \in PhaseCurrents
  /\ now >= last_timestamp_
  /\ enabled_ = TRUE
  /\ vs_pc = "phase"
  /\ timestamp = 0
  /\ wake = <<>>
  /\ control_in_flight = FALSE
  /\ stale_phase = FALSE
  /\ lock_ = "free"
  /\ exit_ = FALSE
  /\ waited = "none"
  /\ vblank_from = 0
  /\ cb = NoCallback
  /\ IdleBesidesVs

NextPhase == PhaseCall

SpecPhase == InitPhase /\ [][NextPhase]_vars

\* C33: with the last timestamp unknown GetPhasedVSync returns the clock plus
\* one period; otherwise it returns the smallest last + k * frame_ns, k >= 1,
\* that is after the clock, which is at most one period after the clock and a
\* whole number of periods after the last timestamp; for last 137, period 50
\* and clock 683 it returns 687.
C33_NextInPhase ==
  vs_pc = "phased" =>
    LET r == wake.target
        f == wake.frame_ns
        c == wake.current
        l == last_timestamp_
    IN  /\ l < 0 => r = c + f
        /\ l >= 0 =>
             /\ c < r
             /\ r <= c + f
             /\ (r - l) % f = 0
             /\ \E k \in 1 .. (c - l + 1) :
                  /\ r = l + k * f
                  /\ \A j \in 1 .. (k - 1) : l + j * f <= c
        /\ (l = 137 /\ f = 50 /\ c = 683) => r = 687

\* C33 witness: the call of the example has been made.
C33_Witness ==
  /\ vs_pc = "phased"
  /\ last_timestamp_ = 137
  /\ wake.frame_ns = 50
  /\ wake.current = 683
  /\ wake.target = 687

\* the CRTCs TryEncoderForDisplay may bind for the display: the encoder's
\* current CRTC and its possible CRTCs, as far as they can bind
Bindable(display, enc) ==
  {k \in (possible_crtcs(enc) \cup {enc_crtc[enc]}) \ {0} :
     crtc_can_bind(Binding, k, display)}

\* what TryEncoderForDisplay(display, enc) does in the current state
TryOutcomeOk(display, enc) ==
  LET t == TryEncoderForDisplay(Binding, display, enc)
      cur == enc_crtc[enc]
      k == t.b.enc_crtc[enc]
  IN  /\ t.ret \in {0, -EAGAIN}
      /\ t.ret = -EAGAIN <=> Bindable(display, enc) = {}
      /\ t.ret = -EAGAIN => t.b = Binding
      /\ t.ret = 0 =>
           /\ k \in Bindable(display, enc)
           /\ t.b.crtc_display = [crtc_display EXCEPT ![k] = display]
           /\ \A e \in EncoderIds \ {enc} :
                /\ t.b.enc_crtc[e] = enc_crtc[e]
                /\ t.b.enc_display[e] = enc_display[e]
           /\ t.b.conn_encoder = conn_encoder
           /\ t.b.conn_display = conn_display
           /\ (cur # 0 /\ crtc_can_bind(Binding, cur, display)) => k = cur
           /\ ~(cur # 0 /\ crtc_can_bind(Binding, cur, display))
                => /\ k \in possible_crtcs(enc)
                   /\ \A o \in possible_crtcs(enc) :
                        (o < k /\ o # cur)
                          => ~crtc_can_bind(Binding, o, display)

\* what CreateDisplayPipe(connector) does in the current state
PipeOutcomeOk(connector) ==
  LET p == CreateDisplayPipe(Binding, connector)
      display == conn_display[connector]
      cur == conn_encoder[connector]
      refused(e) == TryEncoderForDisplay(Binding, display, e).ret = -EAGAIN
      encs == possible_encoders(connector)
  IN  /\ p.ret \in {0, -ENODEV}
      /\ p.ret = -ENODEV
           <=> /\ cur # 0 => refused(cur)
               /\ \A i \in 1 .. Len(encs) : refused(encs[i])
      /\ p.ret = -ENODEV => p.b = Binding
      /\ (cur # 0 /\ ~refused(cur))
           => p.ret = 0 /\ p.b.conn_encoder = conn_encoder

\* the connector Init is about to call CreateDisplayPipe for
AtPipe == pc = "pipes" /\ pipe_i <= Len(connectors_)

\* C34: TryEncoderForDisplay returns 0 with one CRTC bound to the display, the
\* encoder's current CRTC if it can bind and else the first possible CRTC
\* that can, or -EAGAIN with nothing changed, and -EAGAIN exactly when no
\* candidate can bind; CreateDisplayPipe returns -ENODEV exactly when the
\* current encoder and every possible encoder are refused with -EAGAIN, and
\* keeps the connector's encoder when the current encoder succeeds.
C34_BindOrRetry ==
  AtPipe =>
    /\ \A enc \in EncoderIds :
         TryOutcomeOk(conn_display[connectors_[pipe_i]], enc)
    /\ PipeOutcomeOk(connectors_[pipe_i])

\* C34 witness: after the pipe of the first connector, the next connector's
\* first possible encoder is refused with -EAGAIN and its second one binds a
\* CRTC and becomes the connector's encoder.
C34_Witness ==
  /\ AtPipe
  /\ pipe_i = 2
  /\ LET c == connectors_[pipe_i]
         encs == possible_encoders(c)
     IN  /\ conn_encoder[c] = 0
         /\ Len(encs) = 2
         /\ TryEncoderForDisplay(Binding, conn_display[c], encs[1]).ret = -EAGAIN
         /\ TryEncoderForDisplay(Binding, conn_display[c], encs[2]).ret = 0
         /\ CreateDisplayPipe(Binding, c).ret = 0
         /\ CreateDisplayPipe(Binding, c).b.conn_encoder[c] = encs[2]

\* C36: ResourceManager::Init returns a non-zero status whenever it returns
\* with no display (getDisplayCount() = 0).
C36_NoDisplayIsFailure ==
  (rm_pc = "done" /\ num_displays_ = 0) => rm_result[1] # 0

\* DrmDevice::GetConnectorForDisplay: 0 is nullptr
GetConnectorForDisplay(display) ==
  LET found == {k \in 1..Len(connectors_) :
                  conn_display[connectors_[k]] = display}
  IN IF found = {} THEN 0 ELSE connectors_[Min(found)]

\* the CRTCs at which the loop of AvailableWritebackConnector returns: not
\* the display's own, with no connected display connector and with a
\* writeback connector on the CRTC's display
FreeWritebackCrtcs(display) ==
  {k \in CrtcIds :
     /\ crtc_display[k] # display
     /\ LET display_conn == GetConnectorForDisplay(crtc_display[k])
        IN  ~(display_conn # 0 /\ connected(display_conn))
     /\ GetWritebackConnectorForDisplay(Binding, writeback_connectors_,
                                        crtc_display[k]) # 0}

\* DrmDevice::AvailableWritebackConnector, 0 for nullptr; can_clone is what
\* DrmEncoder::CanClone returns for the two encoders of the display
AvailableWritebackConnector(display, can_clone) ==
  LET writeback_conn ==
        GetWritebackConnectorForDisplay(Binding, writeback_connectors_, display)
      display_conn == GetConnectorForDisplay(display)
  IN IF display_conn # 0 /\ writeback_conn # 0 /\ can_clone
       THEN writeback_conn
     ELSE IF FreeWritebackCrtcs(display) # {}
       THEN GetWritebackConnectorForDisplay(
              Binding, writeback_connectors_,
              crtc_display[Min(FreeWritebackCrtcs(display))])
     ELSE 0

\* the writeback connector has been attached to a display pipe
Attached(wb) ==
  /\ conn_display[wb] >= 0
  /\ conn_encoder[wb] # 0
  /\ enc_crtc[conn_encoder[wb]] # 0

\* C38: after a successful Init AvailableWritebackConnector(display) returns
\* null or an attached writeback connector: the display's own when its
\* encoder can clone the display's encoder, or that of another CRTC whose
\* display has no connected display connector.
C38_AttachedWritebackOnly ==
  InitSucceeded =>
    \A display \in displays_, can_clone \in BOOLEAN :
      LET r == AvailableWritebackConnector(display, can_clone)
      IN  r # 0 =>
            /\ Attached(r)
            /\ \/ conn_display[r] = display /\ can_clone
               \/ /\ conn_display[r] # display
                  /\ \E k \in CrtcIds : crtc_display[k] = conn_display[r]
                  /\ LET display_conn == GetConnectorForDisplay(conn_display[r])
                     IN  ~(display_conn # 0 /\ connected(display_conn))

(***************************************************************************)
(* DrmConnector::UpdateModes (DrmConnector.cpp) on the connectors of a     *)
(* device DrmDevice::Init has returned 0 for. A kernel mode is its timing  *)
(* and its preferred flag; a DrmMode of modes_ is a kernel mode and an id. *)
(***************************************************************************)
\* drmModeGetConnector returned no connector
NullConnector == [connection |-> "none", modes |-> <<>>]

\* the modes the kernel knows
KernelModes ==
  {[timing |-> "1080p", preferred |-> TRUE],
   [timing |-> "720p", preferred |-> FALSE],
   [timing |-> "2160p", preferred |-> TRUE]}

\* what drmModeGetConnector may return, the same mode more than once included
GetConnectorInputs ==
  {NullConnector}
    \cup [connection : {"connected", "disconnected"},
          modes : {<<>>} \cup SeqsUpTo(KernelModes, MaxModes)]

\* DrmMode::operator==(const drmModeModeInfo &)
ModeEquals(mode, m) == mode.mode = m

\* DrmDevice::next_mode_id
next_mode_id(n) == n + 1

\* the loop of UpdateModes over c->modes, from mode i on; acc holds new_modes,
\* the device's mode_id_, preferred_mode_id_ and preferred_mode_found
RECURSIVE ModesLoop(_, _, _, _)
ModesLoop(old, reported, i, acc) ==
  IF i > Len(reported)
    THEN acc
    ELSE LET m == reported[i]
             hits == {k \in 1..Len(old) : ModeEquals(old[k], m)}
             exists == hits # {}
             id_now == IF exists THEN acc.mode_id ELSE next_mode_id(acc.mode_id)
             back == IF exists THEN old[Min(hits)]
                               ELSE [mode |-> m, id |-> id_now]
             pref == ~acc.found /\ back.mode.preferred
         IN  ModesLoop(old, reported, i + 1,
                       [new_modes |-> Append(acc.new_modes, back),
                        mode_id |-> id_now,
                        preferred |-> IF pref THEN back.id ELSE acc.preferred,
                        found |-> acc.found \/ pref])

\* UpdateModes with state_ taken from the reply before the reply is tested
UpdateModesStateFirst(conn, mode_id, c) ==
  [conn |-> [conn EXCEPT !.state_ = c.connection],
   mode_id |-> mode_id,
   ret |-> IF c = NullConnector THEN -ENODEV ELSE 0]

\* UpdateModes without the fall back to the first mode of the list
UpdateModesNoFallback(conn, mode_id, c) ==
  IF c = NullConnector
    THEN [conn |-> conn, mode_id |-> mode_id, ret |-> -ENODEV]
    ELSE LET acc == ModesLoop(conn.modes_, c.modes, 1,
                              [new_modes |-> <<>>,
                               mode_id |-> mode_id,
                               preferred |-> conn.preferred_mode_id_,
                               found |-> FALSE])
         IN  [conn |-> [state_ |-> c.connection,
                        modes_ |-> acc.new_modes,
                        preferred_mode_id_ |-> acc.preferred],
              mode_id |-> acc.mode_id,
              ret |-> 0]

\* DrmConnector::UpdateModes on the connector fields conn with the device's
\* mode_id_, when drmModeGetConnector returns c
UpdateModesOf(conn, mode_id, c) ==
  IF c = NullConnector
    THEN [conn |-> conn, mode_id |-> mode_id, ret |-> -ENODEV]
    ELSE LET acc == ModesLoop(conn.modes_, c.modes, 1,
                              [new_modes |-> <<>>,
                               mode_id |-> mode_id,
                               preferred |-> conn.preferred_mode_id_,
                               found |-> FALSE])
         IN  [conn |-> [state_ |-> c.connection,
                        modes_ |-> acc.new_modes,
                        preferred_mode_id_ |->
                          IF ~acc.found /\ acc.new_modes # <<>>
                            THEN acc.new_modes[1].id
                            ELSE acc.preferred],
              mode_id |-> acc.mode_id,
              ret |-> 0]

\* the fields of connector k that UpdateModes works on
ConnectorFields(k) ==
  [state_ |-> state_[k],
   modes_ |-> modes_[k],
   preferred_mode_id_ |-> preferred_mode_id_[k]]

\* one UpdateModes call on a connector of the device
UpdateModes ==
  /\ um_call # <<>>
  /\ \E k \in 1..Len(state_), c \in GetConnectorInputs :
       LET out == UpdateModesOf(ConnectorFields(k), mode_id_, c)
       IN  /\ mode_id_ + Len(c.modes) <= MaxModeId
           /\ state_' = [state_ EXCEPT ![k] = out.conn.state_]
           /\ modes_' = [modes_ EXCEPT ![k] = out.conn.modes_]
           /\ preferred_mode_id_' =
                [preferred_mode_id_ EXCEPT ![k] = out.conn.preferred_mode_id_]
           /\ mode_id_' = out.mode_id
           /\ um_call' = [connector |-> k, ret |-> out.ret,
                          ids_before |-> mode_id_]
  /\ UNCHANGED besidesModes

\* a device with two connected connectors, each with an encoder and a CRTC
\* of its own, after DrmDevice::Init has returned 0
DiscoveredDevice ==
  /\ res = [encoders |-> <<[possible_crtcs |-> {1}, crtc_id |-> 1],
                           [possible_crtcs |-> {2}, crtc_id |-> 2]>>,
            connectors |-> <<[encoders |-> <<1>>, type |-> "eDP",
                              connection |-> "connected", encoder_id |-> 1],
                             [encoders |-> <<2>>, type |-> "HDMI-A",
                              connection |-> "connected", encoder_id |-> 2]>>,
            fail |-> "none"]
  /\ display_order = <<Wildcard>>
  /\ pc = "returned"
  /\ ret = 0
  /\ num_displays = 2
  /\ found_primary = TRUE
  /\ connectors_ = <<1, 2>>
  /\ writeback_connectors_ = <<>>
  /\ conn_display = <<0, 1>>
  /\ conn_encoder = <<1, 2>>
  /\ enc_crtc = <<1, 2>>
  /\ enc_display = <<0, 1>>
  /\ crtc_display = <<0, 1>>
  /\ displays_ = {0, 1}
  /\ pipe_i = 3
  /\ result = <<0, 2>>

\* DrmConnector::DrmConnector: state_ is the reported connection, no mode yet
InitModes ==
  /\ DiscoveredDevice
  /\ state_ = [k \in 1..Len(connectors_) |-> res.connectors[k].connection]
  /\ modes_ = [k \in 1..Len(connectors_) |-> <<>>]
  /\ preferred_mode_id_ = [k \in 1..Len(connectors_) |-> 0]
  /\ mode_id_ = 0
  /\ um_call = [connector |-> 0, ret |-> 0, ids_before |-> 0]
  /\ IdleBesidesModes

NextModes == UpdateModes

SpecModes == InitModes /\ [][NextModes]_vars

\* the ids of the modes of a list
IdsOf(modes) == {modes[i].id : i \in 1..Len(modes)}

\* the ids of the modes of a list are pairwise distinct
LocallyUnique(modes) ==
  \A i, j \in 1..Len(modes) : i # j => modes[i].id # modes[j].id

\* the entries of a list that are the kernel mode m
SameMode(modes, m) == {i \in 1..Len(modes) : modes[i].mode = m}

\* C27: over every sequence of UpdateModes calls on the connectors of a
\* device, a mode already in a connector's list keeps its id, a mode seen for
\* the first time gets an id the device has not handed out before, and the
\* ids of one connector's list are pairwise distinct, also when the kernel
\* reports a mode more than once.
C27_ModeIdsUnique ==
  /\ [](\A k \in 1..Len(modes_) : LocallyUnique(modes_[k]))
  /\ [][\A k \in 1..Len(modes_) : \A i \in 1..Len(modes_'[k]) :
          LET new == modes_'[k][i]
              old == SameMode(modes_[k], new.mode)
          IN  IF old # {}
                THEN new.id \in {modes_[k][j].id : j \in old}
                ELSE new.id > mode_id_]_vars

\* the entries of a list that have the preferred type flag
PreferredIn(modes) == {i \in 1..Len(modes) : modes[i].mode.preferred}

\* C35: the preferred mode id of a connector with a non-empty mode list is
\* the id of the first mode of the list with the preferred flag, or of the
\* first mode of the list when no mode has the flag, and so the id of a mode
\* of the list.
C35_PreferredIsFirstFlagged ==
  \A k \in 1..Len(modes_) :
    modes_[k] # <<>> =>
      /\ preferred_mode_id_[k] =
           IF PreferredIn(modes_[k]) # {}
             THEN modes_[k][Min(PreferredIn(modes_[k]))].id
             ELSE modes_[k][1].id
      /\ preferred_mode_id_[k] \in IdsOf(modes_[k])

\* C35 witness: a successful call has left a connector with two different
\* preferred modes, the second with the smaller id, and the other connector
\* with a preferred mode after one that is not preferred.
C35_Witness ==
  /\ um_call.ret = 0
  /\ Len(modes_[1]) = 2
  /\ PreferredIn(modes_[1]) = {1, 2}
  /\ modes_[1][2].id < modes_[1][1].id
  /\ preferred_mode_id_[1] = modes_[1][1].id
  /\ Len(modes_[2]) = 2
  /\ PreferredIn(modes_[2]) = {2}
  /\ preferred_mode_id_[2] = modes_[2][2].id

\* C28: an UpdateModes call leaves the display ids, the encoders and the
\* encoder and CRTC bindings of the device alone, and the fields of every
\* other connector; a call that returns -ENODEV leaves the connector's state,
\* modes and preferred mode id and the device's mode ids as they were.
C28_OnlyStateAndModes ==
  [][/\ devVars' = devVars
     /\ \A k \in 1..Len(state_) :
          k # um_call'.connector => ConnectorFields(k)' = ConnectorFields(k)
     /\ um_call'.ret = -ENODEV
          => <<state_, modes_, preferred_mode_id_, mode_id_>>'
               = <<state_, modes_, preferred_mode_id_, mode_id_>>
     /\ um_call'.ret \in {0, -ENODEV}]_vars

\* C28 witness: the query has failed on a connector that has modes and has
\* been reported disconnected before; the other connector has modes too.
C28_Witness ==
  /\ um_call # <<>>
  /\ um_call.connector = 1
  /\ um_call.ret = -ENODEV
  /\ state_[1] = "disconnected"
  /\ modes_[1] # <<>>
  /\ modes_[2] # <<>>
  /\ conn_display = <<0, 1>>

(***************************************************************************)
(* DrmPlane::Init with a failing outcome and DrmPlane::AtomicSetState      *)
(* (DrmPlane.cpp). The atomic request is the sequence of the names of the  *)
(* properties added to it.                                                 *)
(***************************************************************************)
\* an optional enum property with every enum name Init asks for
AllEnums(enums) == [present |-> TRUE, enums |-> {e[1] : e \in enums}]

\* planes whose Init may fail: the type property and the mandatory
\* properties vary, the optional properties are all there or all missing
FailingPlaneInputs ==
  {hw \in [type : {[present |-> FALSE, readable |-> FALSE, value |-> "overlay"],
                   [present |-> TRUE, readable |-> FALSE, value |-> "overlay"]}
                    \cup [present : {TRUE}, readable : {TRUE},
                          value : PlaneTypes \cup {"other"}],
           missing : {{}}
                       \cup {{MandatoryProps[i]} : i \in 1..Len(MandatoryProps)}
                       \cup {{"CRTC_ID", "SRC_H"}},
           zpos : {NoZpos, [present |-> TRUE, immutable |-> FALSE]},
           in_fence : BOOLEAN,
           color_encoding : {NoProperty, AllEnums(ColorEncodingEnums)},
           color_range : {NoProperty, AllEnums(ColorRangeEnums)},
           rotation : {NoProperty, AllEnums(RotationEnums)},
           alpha : BOOLEAN,
           blend : {NoProperty, AllEnums(BlendEnums)},
           formats : {{"XR24"}, {"XR24", "NV12"}}] :
     /\ hw.in_fence = hw.zpos.present
     /\ hw.in_fence = hw.color_encoding.present
     /\ hw.in_fence = hw.color_range.present
     /\ hw.in_fence = hw.rotation.present
     /\ hw.in_fence = hw.alpha
     /\ hw.in_fence = hw.blend.present}

\* planes whose Init returns 0: every optional property is there or missing
\* on its own
WorkingPlaneInputs ==
  [type : {OverlayType},
   missing : {{}},
   zpos : {NoZpos} \cup [present : {TRUE}, immutable : BOOLEAN],
   in_fence : BOOLEAN,
   color_encoding : {NoProperty, AllEnums(ColorEncodingEnums)},
   color_range : {NoProperty},
   rotation : {NoProperty, AllEnums(RotationEnums)},
   alpha : BOOLEAN,
   blend : {NoProperty, AllEnums(BlendEnums)},
   formats : {{"XR24"}, {"XR24", "NV12"}}]

\* the layers AtomicSetState is called with
AtomicLayerInputs ==
  [FbIdHandle : BOOLEAN,
   acquire_fence : BOOLEAN,
   transform : {kIdentity},
   alpha : {OpaqueAlpha},
   blending : {"kPreMult", "kCoverage"},
   color_space : {"kUndefined", "kItuRec709"},
   sample_range : {"kUndefined"},
   format : {"XR24"}]

\* the properties whose write the kernel may refuse
RefusedInputs ==
  {"none", "zpos", "IN_FENCE_FD", "CRTC_ID", "SRC_H", "rotation", "alpha",
   "pixel blend mode", "COLOR_ENCODING"}

\* the writes of AtomicSetState in the order of lines 220-279: the name of the
\* property and whether the plane has it
WritesOf(p, l) ==
  (IF p.zpos_property_.present /\ ~p.zpos_property_.immutable
     THEN <<[name |-> "zpos", has |-> TRUE]>> ELSE <<>>)
  \o (IF l.acquire_fence
        THEN <<[name |-> "IN_FENCE_FD", has |-> p.in_fence_fd_property_]>>
        ELSE <<>>)
  \o [i \in 1..Len(MandatoryProps) |-> [name |-> MandatoryProps[i], has |-> TRUE]]
  \o (IF p.rotation_property_
        THEN <<[name |-> "rotation", has |-> TRUE]>> ELSE <<>>)
  \o (IF p.alpha_property_
        THEN <<[name |-> "alpha", has |-> TRUE]>> ELSE <<>>)
  \o (IF l.blending \in p.blending_enum_map_
        THEN <<[name |-> "pixel blend mode", has |-> TRUE]>> ELSE <<>>)
  \o (IF l.color_space \in p.color_encoding_enum_map_
        THEN <<[name |-> "COLOR_ENCODING", has |-> TRUE]>> ELSE <<>>)
  \o (IF l.sample_range \in p.color_range_enum_map_
        THEN <<[name |-> "COLOR_RANGE", has |-> TRUE]>> ELSE <<>>)

\* DrmProperty::AtomicSet: false for a property the plane does not have and
\* when the kernel refuses the write
AtomicSet(w, refused) == w.has /\ w.name # refused

\* the names of the first n writes
NamesOf(writes, n) == [i \in 1..n |-> writes[i].name]

\* AtomicSetState without the test of the framebuffer
AtomicSetStateNoFbTest(p, l, refused) ==
  LET writes == WritesOf(p, l)
      failed == {i \in 1..Len(writes) : ~AtomicSet(writes[i], refused)}
  IN  IF failed = {}
        THEN [ret |-> 0, pset |-> NamesOf(writes, Len(writes))]
        ELSE [ret |-> -EINVAL, pset |-> NamesOf(writes, Min(failed) - 1)]

\* DrmPlane::AtomicSetState: what it returns and what it has added to the
\* request
AtomicSetStateOf(p, l, refused) ==
  IF ~l.FbIdHandle
    THEN [ret |-> -EINVAL, pset |-> <<>>]
    ELSE LET writes == WritesOf(p, l)
             failed == {i \in 1..Len(writes) : ~AtomicSet(writes[i], refused)}
         IN  IF failed = {}
               THEN [ret |-> 0, pset |-> NamesOf(writes, Len(writes))]
               ELSE [ret |-> -EINVAL,
                     pset |-> NamesOf(writes, Min(failed) - 1)]

\* one call of AtomicSetState on a fresh request
AtomicSetState ==
  /\ plane_pc = "ready"
  /\ \E l \in AtomicLayerInputs, refused \in RefusedInputs :
       LET out == AtomicSetStateOf(plane_, l, refused)
       IN  /\ asked_layer' = l
           /\ pset' = out.pset
           /\ atomic_ret' = out.ret
  /\ plane_pc' = "set"
  /\ UNCHANGED <<hw_plane, plane_, is_valid, plane_ret, import_ret>>
  /\ UNCHANGED besidesCap

InitPlaneState ==
  /\ hw_plane \in FailingPlaneInputs \cup WorkingPlaneInputs
  /\ plane_ = <<>>
  /\ asked_layer = <<>>
  /\ is_valid = FALSE
  /\ plane_pc = "new"
  /\ plane_ret = 0
  /\ pset = <<>>
  /\ atomic_ret = 0
  /\ import_ret = 0
  /\ IdleBesidesCap

NextPlaneState ==
  \/ PlaneInit
  \/ AtomicSetState

SpecPlaneState == InitPlaneState /\ [][NextPlaneState]_vars

\* every write of the call's layer on the plane, by name
AllWrites == NamesOf(WritesOf(plane_, asked_layer), Len(WritesOf(plane_, asked_layer)))

\* C29: AtomicSetState on a layer without a framebuffer returns -EINVAL with
\* nothing added to the request; it returns 0 only with every write of the
\* layer in the request, so a failed write is told by the return value; and
\* the call leaves the plane as it was.
C29_FailureTold ==
  /\ []((plane_pc = "set" /\ ~asked_layer.FbIdHandle)
          => (atomic_ret = -EINVAL /\ pset = <<>>))
  /\ [](plane_pc = "set" => (atomic_ret = 0 <=> (/\ asked_layer.FbIdHandle
                                                  /\ pset = AllWrites)))
  /\ [][plane_pc' = "set" => <<hw_plane, plane_>>' = <<hw_plane, plane_>>]_vars

\* C29 witness: a layer without a framebuffer has been refused on a plane
\* that has every optional property.
C29_Witness ==
  /\ plane_pc = "set"
  /\ ~asked_layer.FbIdHandle
  /\ asked_layer.acquire_fence
  /\ plane_.rotation_property_
  /\ plane_.in_fence_fd_property_
  /\ atomic_ret = -EINVAL

\* Init has returned
PlaneInitDone == plane_pc \in {"ready", "failed", "set"}

\* C30: DrmPlane::Init fails exactly when the type property is missing or
\* unreadable, the type is not primary, overlay or cursor, or a mandatory
\* property is missing; a missing optional property leaves its property unset
\* and its enum map empty.
C30_InitFailsExactly ==
  PlaneInitDone =>
    /\ plane_ret # 0 <=> \/ ~hw_plane.type.present
                         \/ ~hw_plane.type.readable
                         \/ hw_plane.type.value \notin PlaneTypes
                         \/ hw_plane.missing # {}
    /\ plane_ret = 0 =>
         /\ ~hw_plane.zpos.present => ~plane_.zpos_property_.present
         /\ ~hw_plane.rotation.present
              => ~plane_.rotation_property_ /\ plane_.transform_enum_map_ = {}
         /\ ~hw_plane.alpha => ~plane_.alpha_property_
         /\ ~hw_plane.blend.present => plane_.blending_enum_map_ = {}
         /\ ~hw_plane.in_fence => ~plane_.in_fence_fd_property_
         /\ ~hw_plane.color_encoding.present
              => plane_.color_encoding_enum_map_ = {}
         /\ ~hw_plane.color_range.present => plane_.color_range_enum_map_ = {}

\* C30 witness: Init has returned 0 on a plane with a non-RGB format and no
\* optional property at all.
C30_Witness ==
  /\ plane_pc = "ready"
  /\ plane_ret = 0
  /\ "NV12" \in hw_plane.formats
  /\ ~hw_plane.zpos.present
  /\ ~hw_plane.rotation.present
  /\ ~hw_plane.alpha
  /\ ~hw_plane.blend.present
  /\ ~hw_plane.in_fence
  /\ ~hw_plane.color_encoding.present
  /\ ~hw_plane.color_range.present

(***************************************************************************)
(* DrmHwcLayer::ImportBuffer (hwcutils.cpp) followed by                    *)
(* DrmPlane::AtomicSetState on the same layer. FbIdHandle is whether the   *)
(* layer holds a framebuffer handle.                                       *)
(***************************************************************************)
\* how the two calls of ImportBuffer end: ConvertBoInfo fails, GetOrCreateFbId
\* returns no handle, or both succeed
ImportOutcomes == {"convert_fails", "import_fails", "ok"}

\* DrmHwcLayer::ImportBuffer: FbIdHandle is assigned only after ConvertBoInfo
\* has returned 0
ImportBufferOf(l, outcome) ==
  CASE outcome = "convert_fails" -> [layer |-> l, ret |-> -EINVAL]
    [] outcome = "import_fails" ->
         [layer |-> [l EXCEPT !.FbIdHandle = FALSE], ret |-> -EINVAL]
    [] OTHER -> [layer |-> [l EXCEPT !.FbIdHandle = TRUE], ret |-> 0]

\* one call of ImportBuffer on the layer
ImportBuffer ==
  /\ plane_pc \in {"ready", "set"}
  /\ \E outcome \in ImportOutcomes :
       LET out == ImportBufferOf(asked_layer, outcome)
       IN  /\ asked_layer' = out.layer
           /\ import_ret' = out.ret
  /\ plane_pc' = "ready"
  /\ UNCHANGED <<hw_plane, plane_, is_valid, plane_ret, pset, atomic_ret>>
  /\ UNCHANGED besidesCap

\* AtomicSetState on the layer as the last ImportBuffer left it
AtomicSetImported ==
  /\ plane_pc = "ready"
  /\ \E refused \in RefusedInputs :
       LET out == AtomicSetStateOf(plane_, asked_layer, refused)
       IN  /\ pset' = out.pset
           /\ atomic_ret' = out.ret
  /\ plane_pc' = "set"
  /\ UNCHANGED <<hw_plane, plane_, asked_layer, is_valid, plane_ret,
                 import_ret>>
  /\ UNCHANGED besidesCap

\* a plane before Init and a layer no buffer has been imported for
InitImport ==
  /\ hw_plane \in WorkingPlaneInputs
  /\ plane_ = <<>>
  /\ asked_layer \in {l \in AtomicLayerInputs : ~l.FbIdHandle}
  /\ is_valid = FALSE
  /\ plane_pc = "new"
  /\ plane_ret = 0
  /\ pset = <<>>
  /\ atomic_ret = 0
  /\ import_ret = 0
  /\ IdleBesidesCap

NextImport ==
  \/ PlaneInit
  \/ ImportBuffer
  \/ AtomicSetImported

SpecImport == InitImport /\ [][NextImport]_vars

\* C37: after ImportBuffer has returned an error the layer holds no
\* framebuffer handle and AtomicSetState on it returns -EINVAL, whatever
\* ImportBuffer calls went before.
C37_FailedImportRejected ==
  /\ (plane_pc \in {"ready", "set"} /\ import_ret # 0)
       => ~asked_layer.FbIdHandle
  /\ (plane_pc = "set" /\ import_ret # 0) => atomic_ret = -EINVAL

====
